---- MODULE Spec2Model ----
(***************************************************************************)
(* Model of the real-time layer of the chat server                          *)
(* (src/server/socket/socketHandlers.js) together with the parts of the    *)
(* Chat and Message models it uses.                                         *)
(*                                                                          *)
(* Every socket.on handler is one action per synchronous segment: a         *)
(* segment runs from the resolution of one `await` (the database operation  *)
(* it waited for takes effect there) to the next `await`.  Segments of      *)
(* different handlers interleave freely, as they do on the Node event loop. *)
(***************************************************************************)
EXTENDS Integers, Sequences, FiniteSets, TLC

(***************************************************************************)
(* Bounds of the model.                                                     *)
(***************************************************************************)
MaxSockets == 2      \* connection attempts made from the initial state
MaxOps == 2          \* join_chat / send_message handlers started
MaxTyping == 3       \* typing_start / typing_stop commands received
MaxCalls == 3        \* call commands and call requests handled
MaxClock == 1        \* seconds that pass
MaxMarks == 2        \* message_delivered / message_read handlers started

(***************************************************************************)
(* The universe: users in the database, handshake tokens, chats.            *)
(***************************************************************************)
Users == {"u1", "u2", "u3"}
SocketUsers == {"u1", "u2"}      \* the users that open socket connections
NoUser == "-"
GhostUser == "ghost"

NoSocket == "unused"
NoToken == "none"
BadToken == "bad"
GhostToken == "tok_ghost"
Tokens == {NoToken, BadToken, GhostToken, "tok_u1", "tok_u2"}

Sockets == {1, 2, 3}

ChatIds == {"c1", "c2", "c9"}     \* c9 names no chat
StoredChats == {"c1", "c2"}
NoChat == "-"

\* jwt.verify: throws on a token that is not validly signed
JwtVerifies(token) == token \in {GhostToken, "tok_u1", "tok_u2"}

\* decoded.userId of a validly signed token
DecodedUserId(token) ==
  CASE token = "tok_u1" -> "u1"
    [] token = "tok_u2" -> "u2"
    [] OTHER -> GhostUser

VARIABLES
  handshake,    \* socket.handshake.auth.token of each socket, NoSocket before it connects
  userId,       \* socket.userId
  connected,    \* socket.connected
  setup,        \* position of the io.on('connection') handler of each socket
  disc,         \* position of the socket.on('disconnect') handler of each socket
  rooms,        \* the rooms each socket id is in (socket.io adapter)
  inbox,        \* the events pushed to each connection, in order of arrival
  activeUsers,  \* the module-level Map  userId -> { socketId, user, lastSeen }
  activeCalls,  \* the module-level Map  callId -> { caller, target, status }
  userDb,       \* User documents: isOnline, socketId
  chats,        \* Chat documents: participants, lastMessage, lastActivity
  messages,     \* Message documents, in the order they were saved
  ops,          \* the asynchronous join_chat / send_message handlers started so far
  roomLog,      \* per chat, the messages handed to io.to(`chat:..`).emit, in order
  typed,        \* the number of typing_start / typing_stop commands received
  presenceLog,  \* the user_online / user_offline broadcasts made so far, in order
  lastCmd,      \* the client event the last step handled, NoCmd when the last
                \* step resumed a handler after an await
  clock,        \* Date.now(), in milliseconds since the server started
  callHistory,  \* the module-level array of call records of the HTTP call routes
  called,       \* the number of call commands and call requests handled
  broken,       \* the sockets whose transport has failed and is not closed yet
  typingTimer,  \* per client, the typingTimer state of its ChatWindow (0: null)
  timers,       \* per client, the pending window.setTimeout timers of ChatWindow
  isTyping,     \* per client, the store's isTyping: chat -> the users shown typing
  typingTimeouts, \* per client, the pending auto-clear timeouts of the user_typing
                \* handler, oldest first: chat, user and age in seconds
  chatRoles,    \* Chat documents: isGroupChat, creator and the participants
                \* array with each participant's role
  deliveredTo,  \* Message documents: the deliveredTo array, per message id
  readBy,       \* Message documents: the readBy array, per message id
  marks         \* the message_delivered / message_read handlers started so far

vars == <<handshake, userId, connected, setup, disc, rooms, inbox, activeUsers,
          activeCalls, userDb, chats, messages, ops, roomLog, typed,
          presenceLog, lastCmd, clock, callHistory, called, broken,
          typingTimer, timers, isTyping, typingTimeouts,
          chatRoles, deliveredTo, readBy, marks>>

callVars == <<clock, callHistory, called>>
recvVars == <<isTyping, typingTimeouts>>
clientVars == <<typingTimer, timers, recvVars>>
markVars == <<deliveredTo, readBy, marks>>

(***************************************************************************)
(* Events and rooms.                                                        *)
(***************************************************************************)
NoCall == <<0, NoUser>>

Ev(type, chat, user, id, flag, text, call) ==
  [type |-> type, chat |-> chat, user |-> user, id |-> id, flag |-> flag,
   text |-> text, call |-> call]

NewMessage(m) == Ev("new_message", m.chat, m.sender, m.id, FALSE, "", NoCall)
ErrorEv(text) == Ev("error", NoChat, NoUser, 0, FALSE, text, NoCall)
UserOnline(u) == Ev("user_online", NoChat, u, 0, TRUE, "", NoCall)
UserOffline(u) == Ev("user_offline", NoChat, u, 0, FALSE, "", NoCall)
UserTyping(c, u, flag) == Ev("user_typing", c, u, 0, flag, "", NoCall)
CallEv(type, callId, from) == Ev(type, NoChat, from, 0, FALSE, "", callId)

UserRoom(u) == <<"user", u>>
ChatRoom(c) == <<"chat", c>>

Cmd(op, s, arg) == [op |-> op, sock |-> s, arg |-> arg]
NoCmd == Cmd("none", 0, NoChat)

(***************************************************************************)
(* socket.io primitives.                                                    *)
(***************************************************************************)
\* (variant: the emit ignores the room and reaches every live socket)
InRoom_Everyone(room) == {s \in Sockets : connected[s]}

\* the connections a room emit reaches: live sockets that are in the room
InRoom(room) == {s \in Sockets : connected[s] /\ room \in rooms[s]}

\* socket.broadcast: every live socket of the namespace except the sender
AllBut(s) == {t \in Sockets : connected[t] /\ t # s}

\* (variant: the newest event overtakes the ones already queued)
Deliver_Prepend(inb, recipients, ev) ==
  [s \in Sockets |-> IF s \in recipients /\ s \notin broken
                     THEN <<ev>> \o inb[s] ELSE inb[s]]

\* (variant: a failing push aborts the fan-out, nobody gets the event)
Deliver_AllOrNothing(inb, recipients, ev) ==
  [s \in Sockets |-> IF s \in recipients /\ recipients \cap broken = {}
                     THEN Append(inb[s], ev) ELSE inb[s]]

\* push one event to a set of connections; each connection's transport is
\* FIFO, and a push to a connection whose transport has failed is lost
Deliver(inb, recipients, ev) ==
  [s \in Sockets |-> IF s \in recipients /\ s \notin broken
                     THEN Append(inb[s], ev) ELSE inb[s]]

\* socket.join(room): adapter.addAll, does not look at socket.connected
SocketJoin(rms, s, newRooms) == [rms EXCEPT ![s] = @ \cup newRooms]

\* (variant: leaving a room the socket is not in puts it into the room)
SocketLeave_Toggle(rms, s, room) ==
  [rms EXCEPT ![s] = IF room \in @ THEN @ \ {room} ELSE @ \cup {room}]

\* socket.leave(room): a no-op when the socket is not in the room
SocketLeave(rms, s, room) == [rms EXCEPT ![s] = @ \ {room}]

\* Map.prototype.set / delete on activeUsers
MapSet(map, k, v) == [x \in DOMAIN map \cup {k} |-> IF x = k THEN v ELSE map[x]]
MapDelete(map, k) == [x \in DOMAIN map \ {k} |-> map[x]]

(***************************************************************************)
(* Chat model.                                                              *)
(***************************************************************************)
\* Chat.findById: the document, or null for an id that names no chat
ChatExists(c) == c \in DOMAIN chats

\* (variant: the participant check always passes)
IsParticipant_Always(c, u) == TRUE

\* chatSchema.methods.isParticipant
IsParticipant(c, u) == u \in chats[c].participants

\* Chat.find({'participants.user': userId}).select('_id')
ChatsOf(u) == {c \in DOMAIN chats : u \in chats[c].participants}

\* the group chats of the database: u2 created both and is their owner
InitRoles ==
  [c \in StoredChats |->
     [isGroupChat |-> TRUE, creator |-> "u2",
      members |-> IF c = "c1"
                  THEN <<[user |-> "u2", role |-> "owner"], [user |-> "u1", role |-> "member"]>>
                  ELSE <<[user |-> "u2", role |-> "owner"]>>]]

(***************************************************************************)
(* Initial state: the server has started, nobody has connected.  The        *)
(* database holds two users and two chats; u1 is not a participant of c2,   *)
(* and no chat has the id c9.                                               *)
(***************************************************************************)
Init ==
  /\ handshake = [s \in Sockets |-> NoSocket]
  /\ userId = [s \in Sockets |-> NoUser]
  /\ connected = [s \in Sockets |-> FALSE]
  /\ setup = [s \in Sockets |-> "none"]
  /\ disc = [s \in Sockets |-> "none"]
  /\ rooms = [s \in Sockets |-> {}]
  /\ inbox = [s \in Sockets |-> <<>>]
  /\ activeUsers = <<>>
  /\ activeCalls = <<>>
  /\ userDb = [u \in Users |-> [isOnline |-> FALSE, socketId |-> 0]]
  /\ chats = [c \in StoredChats |->
                [participants |-> IF c = "c1" THEN {"u1", "u2"} ELSE {"u2"},
                 lastMessage |-> 0, lastActivity |-> 0]]
  /\ messages = <<>>
  /\ ops = <<>>
  /\ roomLog = [c \in ChatIds |-> <<>>]
  /\ typed = 0
  /\ presenceLog = <<>>
  /\ lastCmd = NoCmd
  /\ clock = 0
  /\ callHistory = <<>>
  /\ called = 0
  /\ broken = {}
  /\ typingTimer = [s \in Sockets |-> 0]
  /\ timers = [s \in Sockets |-> {}]
  /\ isTyping = [s \in Sockets |-> [c \in StoredChats |-> {}]]
  /\ typingTimeouts = [s \in Sockets |-> <<>>]
  /\ chatRoles = InitRoles
  /\ deliveredTo = <<>>
  /\ readBy = <<>>
  /\ marks = <<>>

(***************************************************************************)
(* io.use authentication middleware.                                        *)
(***************************************************************************)
\* (variant: the middleware does not check that the user exists)
Authenticate_NoUserCheck(token) ==
  IF token = NoToken THEN NoUser
  ELSE IF ~JwtVerifies(token) THEN NoUser
  ELSE DecodedUserId(token)

\* the user the middleware attaches to the socket, NoUser when it calls
\* next(new Error(..))
Authenticate(token) ==
  IF token = NoToken THEN NoUser
  ELSE IF ~JwtVerifies(token) THEN NoUser
  ELSE IF DecodedUserId(token) \notin Users THEN NoUser
  ELSE DecodedUserId(token)

\* sockets get their ids in the order they connect
NextSocket(s) ==
  /\ s <= MaxSockets
  /\ handshake[s] = NoSocket
  /\ \A t \in Sockets : t < s => handshake[t] # NoSocket

(***************************************************************************)
(* A client connects with a token.  The middleware rejects it, or the       *)
(* connection handler starts and runs up to its first await (line 52).      *)
(***************************************************************************)
Connect(s, token) ==
  /\ NextSocket(s)
  /\ handshake' = [handshake EXCEPT ![s] = token]
  /\ lastCmd' = Cmd("connection", s, NoChat)
  /\ LET u == Authenticate(token) IN
     IF u = NoUser
     THEN UNCHANGED <<userId, connected, setup, activeUsers>>
     ELSE /\ userId' = [userId EXCEPT ![s] = u]
          /\ connected' = [connected EXCEPT ![s] = TRUE]
          /\ activeUsers' = MapSet(activeUsers, u, [socketId |-> s])
          /\ setup' = [setup EXCEPT ![s] = "await_user"]
  /\ UNCHANGED <<disc, rooms, inbox, activeCalls, userDb, chats, messages, ops, roomLog, typed, presenceLog>>
  /\ UNCHANGED <<callVars, broken, clientVars, chatRoles, markVars>>

\* User.findByIdAndUpdate resolves; the handler joins the personal room and
\* awaits Chat.find (lines 52-64)
SetupUser(s) ==
  /\ setup[s] = "await_user"
  /\ userDb' = [userDb EXCEPT ![userId[s]] = [isOnline |-> TRUE, socketId |-> s]]
  /\ rooms' = SocketJoin(rooms, s, {UserRoom(userId[s])})
  /\ setup' = [setup EXCEPT ![s] = "await_chats"]
  /\ lastCmd' = NoCmd
  /\ UNCHANGED <<handshake, userId, connected, disc, inbox, activeUsers, activeCalls,
                 chats, messages, ops, roomLog, typed, presenceLog>>
  /\ UNCHANGED <<callVars, broken, clientVars, chatRoles, markVars>>

\* Chat.find resolves; the handler joins the chat rooms, broadcasts
\* user_online and registers the socket.on handlers (lines 62-289)
SetupChats(s) ==
  /\ setup[s] = "await_chats"
  /\ rooms' = SocketJoin(rooms, s, {ChatRoom(c) : c \in ChatsOf(userId[s])})
  /\ inbox' = Deliver(inbox, AllBut(s), UserOnline(userId[s]))
  /\ presenceLog' = Append(presenceLog, UserOnline(userId[s]))
  /\ setup' = [setup EXCEPT ![s] = "ready"]
  /\ lastCmd' = NoCmd
  /\ UNCHANGED <<handshake, userId, connected, disc, activeUsers, activeCalls, userDb,
                 chats, messages, ops, roomLog, typed>>
  /\ UNCHANGED <<callVars, broken, clientVars, chatRoles, markVars>>

(***************************************************************************)
(* Disconnection.                                                           *)
(***************************************************************************)
\* the transport of a live socket closes: socket.io takes the socket out of
\* all its rooms and fires 'disconnect'.  The handler exists only once the
\* connection handler has reached line 261; it runs up to its await
\* (lines 261-267)
Disconnect(s) ==
  /\ connected[s]
  /\ connected' = [connected EXCEPT ![s] = FALSE]
  /\ rooms' = [rooms EXCEPT ![s] = {}]
  /\ lastCmd' = Cmd("disconnect", s, NoChat)
  /\ IF setup[s] = "ready"
     THEN /\ activeUsers' = MapDelete(activeUsers, userId[s])
          /\ disc' = [disc EXCEPT ![s] = "await_user"]
     ELSE UNCHANGED <<activeUsers, disc>>
  /\ UNCHANGED <<handshake, userId, setup, inbox, activeCalls, userDb, chats, messages,
                 ops, roomLog, typed, presenceLog>>
  /\ broken' = broken \ {s}
  /\ UNCHANGED <<callVars, clientVars, chatRoles, markVars>>

\* the transport of a live socket fails (transport error); socket.io has not
\* closed the socket yet
TransportError(s) ==
  /\ connected[s]
  /\ s \notin broken
  /\ broken' = broken \cup {s}
  /\ lastCmd' = NoCmd
  /\ UNCHANGED <<handshake, userId, connected, setup, disc, rooms, inbox, activeUsers,
                 activeCalls, userDb, chats, messages, ops, roomLog, typed, presenceLog,
                 callVars, clientVars, chatRoles, markVars>>

\* the calls of activeCalls in which user u is caller or target
CallsOf(calls, u) == SelectSeq(calls, LAMBDA call : call.caller = u \/ call.target = u)

\* the for-loop of lines 281-287: call_ended to the caller's room, then to
\* the target's room, for every call of the user, in Map order
RECURSIVE EndCallsOf(_, _)
EndCallsOf(inb, ended) ==
  IF ended = <<>> THEN inb
  ELSE LET call == Head(ended)
           toCaller == Deliver(inb, InRoom(UserRoom(call.caller)),
                               CallEv("call_ended", call.id, NoUser))
           toTarget == Deliver(toCaller, InRoom(UserRoom(call.target)),
                               CallEv("call_ended", call.id, NoUser))
       IN EndCallsOf(toTarget, Tail(ended))

\* User.findByIdAndUpdate resolves; the handler broadcasts user_offline and
\* ends the user's calls (lines 267-288)
DisconnectDone(s) ==
  /\ disc[s] = "await_user"
  /\ userDb' = [userDb EXCEPT ![userId[s]] = [isOnline |-> FALSE, socketId |-> 0]]
  /\ inbox' = EndCallsOf(Deliver(inbox, AllBut(s), UserOffline(userId[s])),
                         CallsOf(activeCalls, userId[s]))
  /\ presenceLog' = Append(presenceLog, UserOffline(userId[s]))
  /\ activeCalls' = SelectSeq(activeCalls,
                      LAMBDA call : ~(call.caller = userId[s] \/ call.target = userId[s]))
  /\ disc' = [disc EXCEPT ![s] = "done"]
  /\ lastCmd' = NoCmd
  /\ UNCHANGED <<handshake, userId, connected, setup, rooms, activeUsers, chats, messages,
                 ops, roomLog, typed>>
  /\ UNCHANGED <<callVars, broken, clientVars, chatRoles, markVars>>

(***************************************************************************)
(* Commands.  The server receives a command of a socket only while the      *)
(* socket is connected and its handlers are registered.                     *)
(***************************************************************************)
Listening(s) == connected[s] /\ setup[s] = "ready" /\ s \notin broken


Op(kind, s, c, valid) ==
  [kind |-> kind, sock |-> s, chat |-> c, valid |-> valid, pc |-> "find", msg |-> 0]

\* socket.on('join_chat') up to its await (lines 78-80)
JoinChat(s, c) ==
  /\ Listening(s)
  /\ Len(ops) < MaxOps
  /\ ops' = Append(ops, Op("join", s, c, TRUE))
  /\ lastCmd' = Cmd("join_chat", s, c)
  /\ UNCHANGED <<handshake, userId, connected, setup, disc, rooms, inbox, activeUsers,
                 activeCalls, userDb, chats, messages, roomLog, typed, presenceLog>>
  /\ UNCHANGED <<callVars, broken, clientVars, chatRoles, markVars>>

\* Chat.findById resolves in join_chat (lines 80-84)
JoinFind(o) ==
  /\ ops[o].kind = "join"
  /\ ops[o].pc = "find"
  /\ LET s == ops[o].sock
         c == ops[o].chat
     IN /\ rooms' = IF ChatExists(c) /\ IsParticipant(c, userId[s])
                    THEN SocketJoin(rooms, s, {ChatRoom(c)})
                    ELSE rooms
        /\ lastCmd' = NoCmd
  /\ ops' = [ops EXCEPT ![o].pc = "done"]
  /\ UNCHANGED <<handshake, userId, connected, setup, disc, inbox, activeUsers,
                 activeCalls, userDb, chats, messages, roomLog, typed, presenceLog>>
  /\ UNCHANGED <<callVars, broken, clientVars, chatRoles, markVars>>

\* socket.on('leave_chat') (lines 91-94)
LeaveChat(s, c) ==
  /\ Listening(s)
  /\ rooms' = SocketLeave(rooms, s, ChatRoom(c))
  /\ lastCmd' = Cmd("leave_chat", s, c)
  /\ UNCHANGED <<handshake, userId, connected, setup, disc, inbox, activeUsers,
                 activeCalls, userDb, chats, messages, ops, roomLog, typed, presenceLog>>
  /\ UNCHANGED <<callVars, broken, clientVars, chatRoles, markVars>>

\* socket.on('send_message') up to its first await (lines 97-101); valid
\* tells whether the payload passes the Message schema's validation
SendMessage(s, c, valid) ==
  /\ Listening(s)
  /\ Len(ops) < MaxOps
  /\ ops' = Append(ops, Op("send", s, c, valid))
  /\ lastCmd' = Cmd("send_message", s, c)
  /\ UNCHANGED <<handshake, userId, connected, setup, disc, rooms, inbox, activeUsers,
                 activeCalls, userDb, chats, messages, roomLog, typed, presenceLog>>
  /\ UNCHANGED <<callVars, broken, clientVars, chatRoles, markVars>>

\* socket.emit: reaches the socket only while it is connected
ToSocket(s) == IF connected[s] THEN {s} ELSE {}

\* (variant: the handler goes on to save without the authorization check)
SendFind_NoCheck(o) ==
  /\ ops[o].kind = "send"
  /\ ops[o].pc = "find"
  /\ ops' = [ops EXCEPT ![o].pc = "save"]
  /\ lastCmd' = NoCmd
  /\ UNCHANGED <<handshake, userId, connected, setup, disc, rooms, inbox, activeUsers,
                 activeCalls, userDb, chats, messages, roomLog, typed, presenceLog>>
  /\ UNCHANGED <<callVars, broken, clientVars, chatRoles, markVars>>

\* Chat.findById resolves in send_message: the authorization check
\* (lines 101-112)
SendFind(o) ==
  /\ ops[o].kind = "send"
  /\ ops[o].pc = "find"
  /\ LET s == ops[o].sock
         c == ops[o].chat
     IN /\ IF ~ChatExists(c) \/ ~IsParticipant(c, userId[s])
           THEN /\ inbox' = Deliver(inbox, ToSocket(s), ErrorEv("Unauthorized"))
                /\ ops' = [ops EXCEPT ![o].pc = "refused"]
           ELSE /\ inbox' = inbox
                /\ ops' = [ops EXCEPT ![o].pc = "save"]
        /\ lastCmd' = NoCmd
  /\ UNCHANGED <<handshake, userId, connected, setup, disc, rooms, activeUsers,
                 activeCalls, userDb, chats, messages, roomLog, typed, presenceLog>>
  /\ UNCHANGED <<callVars, broken, clientVars, chatRoles, markVars>>

\* newMessage.save() resolves or throws, then the message is read back
\* populated (lines 114-118, 137-140)
SendSave(o) ==
  /\ ops[o].kind = "send"
  /\ ops[o].pc = "save"
  /\ LET s == ops[o].sock
         c == ops[o].chat
         id == Len(messages) + 1
     IN /\ IF ops[o].valid
           THEN /\ messages' = Append(messages,
                                 [id |-> id, sender |-> userId[s], chat |-> c,
                                  status |-> "sent"])
                /\ ops' = [ops EXCEPT ![o].pc = "chatsave", ![o].msg = id]
                /\ inbox' = inbox
           ELSE /\ messages' = messages
                /\ ops' = [ops EXCEPT ![o].pc = "failed"]
                /\ inbox' = Deliver(inbox, ToSocket(s), ErrorEv("Failed to send message"))
        /\ lastCmd' = NoCmd
  /\ UNCHANGED <<handshake, userId, connected, setup, disc, rooms, activeUsers,
                 activeCalls, userDb, chats, roomLog, typed, presenceLog>>
  /\ UNCHANGED <<callVars, broken, clientVars, chatRoles, markVars>>

\* chat.save() resolves, then the message is emitted to the chat room
\* (lines 120-136)
SendChatSave(o) ==
  /\ ops[o].kind = "send"
  /\ ops[o].pc = "chatsave"
  /\ LET s == ops[o].sock
         c == ops[o].chat
         m == messages[ops[o].msg]
     IN /\ chats' = [chats EXCEPT ![c].lastMessage = m.id,
                                  ![c].lastActivity = Len(roomLog[c]) + 1]
        /\ inbox' = Deliver(inbox, InRoom(ChatRoom(c)), NewMessage(m))
        /\ roomLog' = [roomLog EXCEPT ![c] = Append(@, m.id)]
        /\ UNCHANGED <<typed, presenceLog>>
        /\ lastCmd' = NoCmd
  /\ ops' = [ops EXCEPT ![o].pc = "done"]
  /\ UNCHANGED <<handshake, userId, connected, setup, disc, rooms, activeUsers,
                 activeCalls, userDb, messages>>
  /\ UNCHANGED <<callVars, broken, clientVars, chatRoles, markVars>>

\* (variant: io.to(room), which includes the emitting socket)
RoomBut_WithSender(room, s) == InRoom(room)

\* socket.to(room): the room without the emitting socket
RoomBut(room, s) == InRoom(room) \ {s}

\* socket.on('typing_start') (lines 177-184)
TypingStart(s, c) ==
  /\ Listening(s)
  /\ typed < MaxTyping
  /\ typed' = typed + 1
  /\ inbox' = Deliver(inbox, RoomBut(ChatRoom(c), s), UserTyping(c, userId[s], TRUE))
  /\ lastCmd' = Cmd("typing_start", s, c)
  /\ UNCHANGED <<handshake, userId, connected, setup, disc, rooms, activeUsers,
                 activeCalls, userDb, chats, messages, ops, roomLog, presenceLog>>
  /\ UNCHANGED <<callVars, broken, chatRoles, markVars>>

\* socket.on('typing_stop') (lines 186-193)
TypingStop(s, c) ==
  /\ Listening(s)
  /\ typed < MaxTyping
  /\ typed' = typed + 1
  /\ inbox' = Deliver(inbox, RoomBut(ChatRoom(c), s), UserTyping(c, userId[s], FALSE))
  /\ lastCmd' = Cmd("typing_stop", s, c)
  /\ UNCHANGED <<handshake, userId, connected, setup, disc, rooms, activeUsers,
                 activeCalls, userDb, chats, messages, ops, roomLog, presenceLog>>
  /\ UNCHANGED <<callVars, broken, chatRoles, markVars>>

(***************************************************************************)
(* The typing client (ChatWindow): typingTimer is the component's state,    *)
(* timers the window's pending timeouts.  A client's emit is handled by the *)
(* server in the order sent, so an emit and its handling are one step.      *)
(* socket.emit of a client that is gone reaches no handler.                 *)
(***************************************************************************)
\* handleInputChange with text left in the box: startTyping, the old timer
\* is cleared and a new one of 2000 ms set
InputText(s, c) ==
  /\ TypingStart(s, c)
  /\ timers' = [timers EXCEPT ![s] = (@ \ {typingTimer[s]}) \cup {typed'}]
  /\ typingTimer' = [typingTimer EXCEPT ![s] = typed']
  /\ UNCHANGED recvVars

\* handleInputChange with nothing (or blanks) left in the box: stopTyping and
\* the timer is cleared; typingTimer keeps the old handle
InputEmpty(s, c) ==
  /\ TypingStop(s, c)
  /\ timers' = [timers EXCEPT ![s] = @ \ {typingTimer[s]}]
  /\ UNCHANGED <<typingTimer, recvVars>>

\* the 2000 ms timeout callback: stopTyping
TimerFire(s, c, id) ==
  /\ id \in timers[s]
  /\ TypingStop(s, c)
  /\ timers' = [timers EXCEPT ![s] = @ \ {id}]
  /\ UNCHANGED <<typingTimer, recvVars>>

\* the timeout of a client whose connection is gone (tab closed, connection
\* dropped): no typing_stop reaches the server
TimerLost(s, id) ==
  /\ id \in timers[s]
  /\ ~connected[s]
  /\ timers' = [timers EXCEPT ![s] = @ \ {id}]
  /\ lastCmd' = NoCmd
  /\ UNCHANGED <<handshake, userId, connected, setup, disc, rooms, inbox, activeUsers,
                 activeCalls, userDb, chats, messages, ops, roomLog, typed, presenceLog,
                 callVars, broken, typingTimer, recvVars, chatRoles, markVars>>

(***************************************************************************)
(* The receiving client (SocketProvider): the user_typing handler keeps     *)
(* isTyping and sets one window timeout of 3000 ms per typing-start event,  *)
(* whose handle it drops.  Time passes in seconds; all timeouts have the    *)
(* same delay, so they fire oldest first.  An event is handled by the       *)
(* clients it reaches in the step that emits it.                            *)
(***************************************************************************)
\* the delay of the auto-clear timeout, in seconds
TypingTtl == 3

\* the connections the step's emit reaches
Reached == {t \in Sockets : inbox'[t] # inbox[t]}

\* newSocket.on('user_typing') in every client the event reaches
OnUserTyping(c, u, flag) ==
  /\ isTyping' = [t \in Sockets |->
                    IF t \in Reached /\ u # userId[t]
                    THEN [isTyping[t] EXCEPT ![c] = IF flag THEN @ \cup {u} ELSE @ \ {u}]
                    ELSE isTyping[t]]
  /\ typingTimeouts' = [t \in Sockets |->
                          IF t \in Reached /\ u # userId[t] /\ flag
                          THEN Append(typingTimeouts[t], [chat |-> c, user |-> u, age |-> 0])
                          ELSE typingTimeouts[t]]
  /\ UNCHANGED <<typingTimer, timers>>

\* a second passes on the clients' clocks; a timeout that is due fires first
SecondPasses ==
  /\ \E t \in Sockets : typingTimeouts[t] # <<>>
  /\ \A t \in Sockets : \A i \in DOMAIN typingTimeouts[t] : typingTimeouts[t][i].age < TypingTtl
  /\ typingTimeouts' = [t \in Sockets |->
                          [i \in DOMAIN typingTimeouts[t] |->
                             [typingTimeouts[t][i] EXCEPT !.age = @ + 1]]]
  /\ lastCmd' = NoCmd
  /\ UNCHANGED <<handshake, userId, connected, setup, disc, rooms, inbox, activeUsers,
                 activeCalls, userDb, chats, messages, ops, roomLog, typed, presenceLog,
                 callVars, broken, typingTimer, timers, isTyping, chatRoles, markVars>>

\* the auto-clear timeout callback (lines 580-585)
TypingTimeout(s) ==
  /\ typingTimeouts[s] # <<>>
  /\ Head(typingTimeouts[s]).age = TypingTtl
  /\ LET t == Head(typingTimeouts[s])
     IN /\ isTyping' = [isTyping EXCEPT ![s][t.chat] = @ \ {t.user}]
        /\ lastCmd' = Cmd("timeout", s, t.chat)
  /\ typingTimeouts' = [typingTimeouts EXCEPT ![s] = Tail(@)]
  /\ UNCHANGED <<handshake, userId, connected, setup, disc, rooms, inbox, activeUsers,
                 activeCalls, userDb, chats, messages, ops, roomLog, typed, presenceLog,
                 callVars, broken, typingTimer, timers, chatRoles, markVars>>

(***************************************************************************)
(* Call signalling over the socket (lines 195-258).  activeCalls is a Map   *)
(* in insertion order; a call record keeps caller, target, status and       *)
(* startTime.  None of the handlers awaits, so each is one step.            *)
(***************************************************************************)
\* the milliseconds of a second (durations are Math.floor(ms / 1000))
Second == 1000

\* `call_${Date.now()}_${socket.userId}`
CallId(now, u) == <<now, u>>

\* the call ids a client can name: every id the server can have generated
CallIds == {CallId(t * Second, u) : t \in 0..MaxClock, u \in SocketUsers}

\* a call command: the event, the socket, the call id and the user it names
CallCmd(op, s, id, target) == [op |-> op, sock |-> s, arg |-> target, call |-> id]

\* activeCalls.get(callId): the position of the call, 0 for undefined
CallIdx(calls, id) ==
  IF \E i \in DOMAIN calls : calls[i].id = id
  THEN CHOOSE i \in DOMAIN calls : calls[i].id = id
  ELSE 0

\* activeCalls.set(callId, call): a known key keeps its place in the order
CallSet(calls, call) ==
  IF CallIdx(calls, call.id) = 0
  THEN Append(calls, call)
  ELSE [calls EXCEPT ![CallIdx(calls, call.id)] = call]

\* activeCalls.delete(callId)
CallDelete(calls, id) == SelectSeq(calls, LAMBDA call : call.id # id)

\* one second passes
Tick ==
  /\ clock < MaxClock * Second
  /\ clock' = clock + Second
  /\ lastCmd' = NoCmd
  /\ UNCHANGED <<handshake, userId, connected, setup, disc, rooms, inbox, activeUsers,
                 activeCalls, userDb, chats, messages, ops, roomLog, typed, presenceLog,
                 callHistory, called, broken, clientVars, chatRoles, markVars>>

\* socket.on('call_user') (lines 196-225)
CallUser(s, target) ==
  /\ Listening(s)
  /\ called < MaxCalls
  /\ called' = called + 1
  /\ lastCmd' = CallCmd("call_user", s, CallId(clock, userId[s]), target)
  /\ activeCalls' = CallSet(activeCalls,
                      [id |-> CallId(clock, userId[s]), caller |-> userId[s],
                       target |-> target, status |-> "ringing", startTime |-> clock])
  /\ inbox' = Deliver(inbox, InRoom(UserRoom(target)),
                      CallEv("incoming_call", CallId(clock, userId[s]), userId[s]))
  /\ UNCHANGED <<handshake, userId, connected, setup, disc, rooms, activeUsers, userDb,
                 chats, messages, ops, roomLog, typed, presenceLog, clock, callHistory,
                 broken, clientVars, chatRoles, markVars>>

\* socket.on('answer_call') (lines 227-234)
AnswerCall(s, id) ==
  /\ Listening(s)
  /\ called < MaxCalls
  /\ called' = called + 1
  /\ lastCmd' = CallCmd("answer_call", s, id, NoUser)
  /\ LET i == CallIdx(activeCalls, id) IN
     IF i # 0
     THEN /\ activeCalls' = [activeCalls EXCEPT ![i].status = "active"]
          /\ inbox' = Deliver(inbox, InRoom(UserRoom(activeCalls[i].caller)),
                              CallEv("call_answered", id, NoUser))
     ELSE UNCHANGED <<activeCalls, inbox>>
  /\ UNCHANGED <<handshake, userId, connected, setup, disc, rooms, activeUsers, userDb,
                 chats, messages, ops, roomLog, typed, presenceLog, clock, callHistory,
                 broken, clientVars, chatRoles, markVars>>

\* socket.on('reject_call') (lines 236-243)
RejectCall(s, id) ==
  /\ Listening(s)
  /\ called < MaxCalls
  /\ called' = called + 1
  /\ lastCmd' = CallCmd("reject_call", s, id, NoUser)
  /\ LET i == CallIdx(activeCalls, id) IN
     IF i # 0
     THEN /\ inbox' = Deliver(inbox, InRoom(UserRoom(activeCalls[i].caller)),
                              CallEv("call_rejected", id, NoUser))
          /\ activeCalls' = CallDelete(activeCalls, id)
     ELSE UNCHANGED <<activeCalls, inbox>>
  /\ UNCHANGED <<handshake, userId, connected, setup, disc, rooms, activeUsers, userDb,
                 chats, messages, ops, roomLog, typed, presenceLog, clock, callHistory,
                 broken, clientVars, chatRoles, markVars>>

\* socket.on('end_call') (lines 245-253)
EndCall(s, id) ==
  /\ Listening(s)
  /\ called < MaxCalls
  /\ called' = called + 1
  /\ lastCmd' = CallCmd("end_call", s, id, NoUser)
  /\ LET i == CallIdx(activeCalls, id) IN
     IF i # 0
     THEN /\ inbox' = EndCallsOf(inbox, <<activeCalls[i]>>)
          /\ activeCalls' = CallDelete(activeCalls, id)
     ELSE UNCHANGED <<activeCalls, inbox>>
  /\ UNCHANGED <<handshake, userId, connected, setup, disc, rooms, activeUsers, userDb,
                 chats, messages, ops, roomLog, typed, presenceLog, clock, callHistory,
                 broken, clientVars, chatRoles, markVars>>

\* socket.on('ice_candidate') (lines 255-258)
IceCandidate(s, id, target) ==
  /\ Listening(s)
  /\ called < MaxCalls
  /\ called' = called + 1
  /\ lastCmd' = CallCmd("ice_candidate", s, id, target)
  /\ inbox' = Deliver(inbox, InRoom(UserRoom(target)), CallEv("ice_candidate", id, NoUser))
  /\ UNCHANGED <<handshake, userId, connected, setup, disc, rooms, activeUsers,
                 activeCalls, userDb, chats, messages, ops, roomLog, typed, presenceLog,
                 clock, callHistory, broken, clientVars, chatRoles, markVars>>

(***************************************************************************)
(* The HTTP call routes (routes/messages.js, lines 537-825).  callHistory   *)
(* is a module-level array of call records; req.user is the authenticated   *)
(* user of the request.  Without a chatId no handler awaits, so each        *)
(* request is one step.  The routes emit nothing to any socket.             *)
(***************************************************************************)
\* endTime and duration of a record that has not got them yet (undefined)
NotSet == 0 - 1

\* an HTTP call request: the route, req.user, the call id and, for /start,
\* req.body.participantIds
HttpCmd(op, u, id, ids) ==
  [op |-> op, sock |-> 0, arg |-> u, call |-> id, ids |-> ids]

\* callHistory.findIndex(call => call._id === callId), 0 for -1
HistIdx(hist, id) ==
  IF \E i \in DOMAIN hist : hist[i].id = id
  THEN CHOOSE i \in DOMAIN hist :
         hist[i].id = id /\ \A j \in DOMAIN hist : hist[j].id = id => i <= j
  ELSE 0

\* call.participants.find(p => p.user.toString() === req.user._id.toString()),
\* 0 for undefined
ParticipantIdx(call, u) ==
  IF \E i \in DOMAIN call.participants : call.participants[i].user = u
  THEN CHOOSE i \in DOMAIN call.participants :
         /\ call.participants[i].user = u
         /\ \A j \in DOMAIN call.participants : call.participants[j].user = u => i <= j
  ELSE 0

\* (variant: the call counts as rejected as soon as one participant rejects)
AllRejected_Some(call) ==
  \E i \in DOMAIN call.participants : call.participants[i].status = "rejected"

\* call.participants.every(p => p.status === 'rejected')
AllRejected(call) ==
  \A i \in DOMAIN call.participants : call.participants[i].status = "rejected"

\* Math.floor((call.endTime - call.startTime) / 1000)
Duration(startTime, endTime) == (endTime - startTime) \div Second

\* router.post('/start') (lines 569-652)
HttpStart(u, ids) ==
  /\ called < MaxCalls
  /\ called' = called + 1
  /\ lastCmd' = HttpCmd("start", u, CallId(clock, u), ids)
  /\ LET validParticipants == SelectSeq(ids, LAMBDA id : id # u) IN
     IF validParticipants = <<>>
     THEN callHistory' = callHistory
     ELSE callHistory' = Append(callHistory,
            [id |-> CallId(clock, u),
             participants |-> [i \in DOMAIN validParticipants |->
                                 [user |-> validParticipants[i], status |-> "joined"]],
             initiator |-> u, status |-> "ongoing", startTime |-> clock,
             endTime |-> NotSet, duration |-> NotSet])
  /\ UNCHANGED <<handshake, userId, connected, setup, disc, rooms, inbox, activeUsers,
                 activeCalls, userDb, chats, messages, ops, roomLog, typed, presenceLog,
                 clock, broken, clientVars, chatRoles, markVars>>

\* router.post('/:callId/end') (lines 655-711)
HttpEnd(u, id) ==
  /\ called < MaxCalls
  /\ called' = called + 1
  /\ lastCmd' = HttpCmd("end", u, id, <<>>)
  /\ LET i == HistIdx(callHistory, id) IN
     IF i = 0
     THEN callHistory' = callHistory
     ELSE LET call == callHistory[i]
              p == ParticipantIdx(call, u)
          IN IF p = 0 /\ call.initiator # u
             THEN callHistory' = callHistory
             ELSE callHistory' =
                    [callHistory EXCEPT
                       ![i].status = "ended",
                       ![i].endTime = clock,
                       ![i].duration = Duration(call.startTime, clock),
                       ![i].participants =
                          IF p = 0 THEN @ ELSE [@ EXCEPT ![p].status = "left"]]
  /\ UNCHANGED <<handshake, userId, connected, setup, disc, rooms, inbox, activeUsers,
                 activeCalls, userDb, chats, messages, ops, roomLog, typed, presenceLog,
                 clock, broken, clientVars, chatRoles, markVars>>

\* router.post('/:callId/join') (lines 714-768)
HttpJoin(u, id) ==
  /\ called < MaxCalls
  /\ called' = called + 1
  /\ lastCmd' = HttpCmd("join", u, id, <<>>)
  /\ LET i == HistIdx(callHistory, id) IN
     IF i = 0
     THEN callHistory' = callHistory
     ELSE LET call == callHistory[i]
              p == ParticipantIdx(call, u)
          IN IF call.status # "ongoing" \/ p = 0
             THEN callHistory' = callHistory
             ELSE callHistory' =
                    [callHistory EXCEPT ![i].participants[p].status = "joined"]
  /\ UNCHANGED <<handshake, userId, connected, setup, disc, rooms, inbox, activeUsers,
                 activeCalls, userDb, chats, messages, ops, roomLog, typed, presenceLog,
                 clock, broken, clientVars, chatRoles, markVars>>

\* router.post('/:callId/reject') (lines 771-825)
HttpReject(u, id) ==
  /\ called < MaxCalls
  /\ called' = called + 1
  /\ lastCmd' = HttpCmd("reject", u, id, <<>>)
  /\ LET i == HistIdx(callHistory, id) IN
     IF i = 0
     THEN callHistory' = callHistory
     ELSE LET call == callHistory[i]
              p == ParticipantIdx(call, u)
              marked == [call EXCEPT !.participants[p].status = "rejected"]
          IN IF p = 0
             THEN callHistory' = callHistory
             ELSE callHistory' =
                    [callHistory EXCEPT ![i] =
                       IF AllRejected(marked)
                       THEN [marked EXCEPT !.status = "rejected", !.endTime = clock,
                                           !.duration = 0]
                       ELSE marked]
  /\ UNCHANGED <<handshake, userId, connected, setup, disc, rooms, inbox, activeUsers,
                 activeCalls, userDb, chats, messages, ops, roomLog, typed, presenceLog,
                 clock, broken, clientVars, chatRoles, markVars>>

(***************************************************************************)
(* Specifications.                                                          *)
(***************************************************************************)
\* the connection lifecycle, from the start of the server
Next ==
  \/ \E s \in Sockets, token \in Tokens : Connect(s, token)
  \/ \E s \in Sockets : SetupUser(s)
  \/ \E s \in Sockets : SetupChats(s)
  \/ \E s \in Sockets : Disconnect(s)
  \/ \E s \in Sockets : DisconnectDone(s)
  \/ \E s \in Sockets, c \in ChatIds : LeaveChat(s, c)

Spec == Init /\ [][Next]_vars

\* The state after u1 has connected twice (sockets 1 and 2) and u2 once
\* (socket 3), one after the other, each connection handler having run to
\* its end before the next client connected.
InitChat ==
  /\ handshake = <<"tok_u1", "tok_u1", "tok_u2">>
  /\ userId = <<"u1", "u1", "u2">>
  /\ connected = <<TRUE, TRUE, TRUE>>
  /\ setup = <<"ready", "ready", "ready">>
  /\ disc = <<"none", "none", "none">>
  /\ rooms = << {UserRoom("u1"), ChatRoom("c1")},
                {UserRoom("u1"), ChatRoom("c1")},
                {UserRoom("u2"), ChatRoom("c1"), ChatRoom("c2")} >>
  /\ inbox = << <<UserOnline("u1"), UserOnline("u2")>>, <<UserOnline("u2")>>, <<>> >>
  /\ activeUsers = [u \in SocketUsers |-> [socketId |-> IF u = "u1" THEN 2 ELSE 3]]
  /\ activeCalls = <<>>
  /\ userDb = [u \in Users |-> IF u = "u1" THEN [isOnline |-> TRUE, socketId |-> 2]
                                ELSE IF u = "u2" THEN [isOnline |-> TRUE, socketId |-> 3]
                                ELSE [isOnline |-> FALSE, socketId |-> 0]]
  /\ chats = [c \in StoredChats |->
                [participants |-> IF c = "c1" THEN {"u1", "u2"} ELSE {"u2"},
                 lastMessage |-> 0, lastActivity |-> 0]]
  /\ messages = <<>>
  /\ ops = <<>>
  /\ roomLog = [c \in ChatIds |-> <<>>]
  /\ typed = 0
  /\ presenceLog = <<UserOnline("u1"), UserOnline("u1"), UserOnline("u2")>>
  /\ lastCmd = NoCmd
  /\ clock = 0
  /\ callHistory = <<>>
  /\ called = 0
  /\ broken = {}
  /\ typingTimer = [s \in Sockets |-> 0]
  /\ timers = [s \in Sockets |-> {}]
  /\ isTyping = [s \in Sockets |-> [c \in StoredChats |-> {}]]
  /\ typingTimeouts = [s \in Sockets |-> <<>>]
  /\ chatRoles = InitRoles
  /\ deliveredTo = <<>>
  /\ readBy = <<>>
  /\ marks = <<>>

\* join_chat and leave_chat among the three established connections
NextJoin ==
  \/ \E s \in Sockets, c \in ChatIds : JoinChat(s, c)
  \/ \E o \in DOMAIN ops : JoinFind(o)
  \/ \E s \in Sockets, c \in ChatIds : LeaveChat(s, c)

SpecJoin == InitChat /\ [][NextJoin]_vars

\* send_message among the three established connections, while u1's first
\* connection may drop
NextSend ==
  \/ \E s \in Sockets, c \in ChatIds, valid \in BOOLEAN : SendMessage(s, c, valid)
  \/ \E o \in DOMAIN ops : SendFind(o)
  \/ \E o \in DOMAIN ops : SendSave(o)
  \/ \E o \in DOMAIN ops : SendChatSave(o)
  \/ Disconnect(1)
  \/ DisconnectDone(1)

SpecSend == InitChat /\ [][NextSend]_vars

\* typing signals among the three established connections
NextTyping ==
  \/ \E s \in Sockets, c \in StoredChats : TypingStart(s, c) /\ UNCHANGED clientVars
  \/ \E s \in Sockets, c \in StoredChats : TypingStop(s, c) /\ UNCHANGED clientVars
  \/ \E s \in Sockets : LeaveChat(s, "c1")

SpecTyping == InitChat /\ [][NextTyping]_vars

\* The state after u1 has connected twice (sockets 1 and 2), both connection
\* handlers having run to their end, and u2 has just connected (socket 3):
\* its connection handler awaits User.findByIdAndUpdate.
InitCall ==
  /\ handshake = <<"tok_u1", "tok_u1", "tok_u2">>
  /\ userId = <<"u1", "u1", "u2">>
  /\ connected = <<TRUE, TRUE, TRUE>>
  /\ setup = <<"ready", "ready", "await_user">>
  /\ disc = <<"none", "none", "none">>
  /\ rooms = << {UserRoom("u1"), ChatRoom("c1")}, {UserRoom("u1"), ChatRoom("c1")}, {} >>
  /\ inbox = << <<UserOnline("u1")>>, <<>>, <<>> >>
  /\ activeUsers = [u \in SocketUsers |-> [socketId |-> IF u = "u1" THEN 2 ELSE 3]]
  /\ activeCalls = <<>>
  /\ userDb = [u \in Users |-> IF u = "u1" THEN [isOnline |-> TRUE, socketId |-> 2]
                                ELSE [isOnline |-> FALSE, socketId |-> 0]]
  /\ chats = [c \in StoredChats |->
                [participants |-> IF c = "c1" THEN {"u1", "u2"} ELSE {"u2"},
                 lastMessage |-> 0, lastActivity |-> 0]]
  /\ messages = <<>>
  /\ ops = <<>>
  /\ roomLog = [c \in ChatIds |-> <<>>]
  /\ typed = 0
  /\ presenceLog = <<UserOnline("u1"), UserOnline("u1")>>
  /\ lastCmd = Cmd("connection", 3, NoChat)
  /\ clock = 0
  /\ callHistory = <<>>
  /\ called = 0
  /\ broken = {}
  /\ typingTimer = [s \in Sockets |-> 0]
  /\ timers = [s \in Sockets |-> {}]
  /\ isTyping = [s \in Sockets |-> [c \in StoredChats |-> {}]]
  /\ typingTimeouts = [s \in Sockets |-> <<>>]
  /\ chatRoles = InitRoles
  /\ deliveredTo = <<>>
  /\ readBy = <<>>
  /\ marks = <<>>

\* call signalling between u1's first connection and u2's connection, while
\* u2's connection is being set up and may drop; u1's second connection
\* listens
NextCall ==
  \/ SetupUser(3)
  \/ SetupChats(3)
  \/ Disconnect(3)
  \/ DisconnectDone(3)
  \/ Tick
  \/ \E s \in {1, 3}, target \in SocketUsers : CallUser(s, target)
  \/ \E s \in {1, 3}, id \in CallIds : AnswerCall(s, id)
  \/ \E s \in {1, 3}, id \in CallIds : RejectCall(s, id)
  \/ \E s \in {1, 3}, id \in CallIds : EndCall(s, id)

SpecCall == InitCall /\ [][NextCall]_vars

\* u1 calls u2 or u3; u1 and u2 answer, reject and end calls, and one of
\* u1's two connections may drop
NextParties ==
  \/ \E target \in {"u2", "u3"} : CallUser(1, target)
  \/ \E s \in {1, 3}, id \in CallIds : AnswerCall(s, id)
  \/ \E s \in {1, 3}, id \in CallIds : RejectCall(s, id)
  \/ \E s \in {1, 3}, id \in CallIds : EndCall(s, id)
  \/ Disconnect(2)
  \/ DisconnectDone(2)
  \/ Tick

SpecParties == InitChat /\ [][NextParties]_vars

\* ICE candidates among the three established connections, for calls that
\* are ringing, have ended or never existed
NextIce ==
  \/ \E s \in {1, 3}, target \in SocketUsers : CallUser(s, target)
  \/ \E s \in {1, 3}, id \in CallIds : EndCall(s, id)
  \/ \E s \in Sockets, id \in CallIds, target \in SocketUsers : IceCandidate(s, id, target)
  \/ Tick

SpecIce == InitChat /\ [][NextIce]_vars

\* the clients of u1's first connection and of u2's connection type in chat
\* c1; u1's client may go away
NextTtl ==
  \/ \E s \in {1, 3} : InputText(s, "c1")
  \/ \E s \in {1, 3} : InputEmpty(s, "c1")
  \/ \E s \in {1, 3}, id \in 1..MaxTyping : TimerFire(s, "c1", id)
  \/ \E id \in 1..MaxTyping : TimerLost(1, id)
  \/ Disconnect(1)
  \/ DisconnectDone(1)

SpecTtl == InitChat /\ [][NextTtl]_vars

\* u1 types in chat c1 on its first connection while time passes on the
\* clients that show the indicator
NextRecv ==
  \/ TypingStart(1, "c1") /\ OnUserTyping("c1", "u1", TRUE)
  \/ TypingStop(1, "c1") /\ OnUserTyping("c1", "u1", FALSE)
  \/ SecondPasses
  \/ \E s \in Sockets : TypingTimeout(s)

SpecRecv == InitChat /\ [][NextRecv]_vars

\* send_message to chat c1 while the transport of a connection fails and
\* socket.io closes the connection
NextPush ==
  \/ \E s \in {2, 3} : SendMessage(s, "c1", TRUE)
  \/ \E o \in DOMAIN ops : SendFind(o)
  \/ \E o \in DOMAIN ops : SendSave(o)
  \/ \E o \in DOMAIN ops : SendChatSave(o)
  \/ \E s \in {1, 3} : TransportError(s)
  \/ \E s \in broken : Disconnect(s)
  \/ \E s \in Sockets : DisconnectDone(s)

SpecPush == InitChat /\ [][NextPush]_vars

(***************************************************************************)
(* Message status (lines 143-174, models/Message.js 161-181).  Each handler *)
(* loads its own copy of the message document, changes the copy and saves   *)
(* it; the save writes what the copy changed: it pushes the new array entry *)
(* and sets status if the copy's status changed.                            *)
(***************************************************************************)
\* the message ids clients name; the last one names no message
MarkIds == {1, 2, 3}

StatusEv(m, status, u) ==
  Ev("message_status_updated", messages[m].chat, u, m, FALSE, status, NoCall)

\* the array of message m, empty until somebody is pushed
ArrayOf(map, m) == IF m \in DOMAIN map THEN map[m] ELSE <<>>

\* this.readBy.find / this.deliveredTo.find
HasUser(arr, u) == \E i \in DOMAIN arr : arr[i] = u

\* messageSchema.methods.markAsDelivered on a loaded copy: what save() writes
MarkAsDelivered(status, arr, u) ==
  IF HasUser(arr, u) THEN [push |-> FALSE, set |-> ""]
  ELSE [push |-> TRUE, set |-> IF status = "sent" THEN "delivered" ELSE ""]

\* messageSchema.methods.markAsRead on a loaded copy: what save() writes
MarkAsRead(status, arr, u) ==
  IF HasUser(arr, u) THEN [push |-> FALSE, set |-> ""]
  ELSE [push |-> TRUE, set |-> IF status # "read" THEN "read" ELSE ""]

\* socket.on('message_delivered') / socket.on('message_read') up to the
\* await of Message.findById (lines 144-146, 160-162)
MarkStart(s, kind, m) ==
  /\ Listening(s)
  /\ Len(marks) < MaxMarks
  /\ marks' = Append(marks, [kind |-> kind, sock |-> s, msg |-> m, pc |-> "find",
                             push |-> FALSE, set |-> ""])
  /\ lastCmd' = CallCmd(IF kind = "read" THEN "message_read" ELSE "message_delivered",
                        s, m, NoUser)
  /\ UNCHANGED <<handshake, userId, connected, setup, disc, rooms, inbox, activeUsers,
                 activeCalls, userDb, chats, messages, ops, roomLog, typed, presenceLog,
                 callVars, broken, clientVars, chatRoles, deliveredTo, readBy>>

\* Message.findById resolves; the method changes the loaded copy and calls
\* save() (lines 146-148, 162-164)
MarkFind(o) ==
  /\ marks[o].pc = "find"
  /\ LET m == marks[o].msg
         u == userId[marks[o].sock]
     IN IF m \notin DOMAIN messages
        THEN marks' = [marks EXCEPT ![o].pc = "done"]
        ELSE LET w == IF marks[o].kind = "read"
                      THEN MarkAsRead(messages[m].status, ArrayOf(readBy, m), u)
                      ELSE MarkAsDelivered(messages[m].status, ArrayOf(deliveredTo, m), u)
             IN marks' = [marks EXCEPT ![o].pc = "save", ![o].push = w.push, ![o].set = w.set]
  /\ lastCmd' = NoCmd
  /\ UNCHANGED <<handshake, userId, connected, setup, disc, rooms, inbox, activeUsers,
                 activeCalls, userDb, chats, messages, ops, roomLog, typed, presenceLog,
                 callVars, broken, clientVars, chatRoles, deliveredTo, readBy>>

\* save() resolves; message_status_updated goes to the room of the
\* message's chat (lines 148-153, 164-169)
MarkSave(o) ==
  /\ marks[o].pc = "save"
  /\ LET m == marks[o].msg
         u == userId[marks[o].sock]
         kind == marks[o].kind
     IN /\ deliveredTo' = IF kind = "delivered" /\ marks[o].push
                          THEN MapSet(deliveredTo, m, Append(ArrayOf(deliveredTo, m), u))
                          ELSE deliveredTo
        /\ readBy' = IF kind = "read" /\ marks[o].push
                     THEN MapSet(readBy, m, Append(ArrayOf(readBy, m), u))
                     ELSE readBy
        /\ messages' = IF marks[o].set # ""
                       THEN [messages EXCEPT ![m].status = marks[o].set]
                       ELSE messages
        /\ inbox' = Deliver(inbox, InRoom(ChatRoom(messages[m].chat)), StatusEv(m, kind, u))
  /\ marks' = [marks EXCEPT ![o].pc = "done"]
  /\ lastCmd' = NoCmd
  /\ UNCHANGED <<handshake, userId, connected, setup, disc, rooms, activeUsers,
                 activeCalls, userDb, chats, ops, roomLog, typed, presenceLog,
                 callVars, broken, clientVars, chatRoles>>

(***************************************************************************)
(* The group routes of routes/users.js and the message route of            *)
(* routes/messages.js.  A route reads and writes one chat document and      *)
(* touches no socket: it is one step.  The participants keep the default    *)
(* permissions (canAddMembers false, canSendMessages true).                 *)
(***************************************************************************)
\* chatSchema.methods.isAdmin
IsAdmin(c, u) ==
  \E i \in DOMAIN chatRoles[c].members :
     chatRoles[c].members[i].user = u /\ chatRoles[c].members[i].role \in {"admin", "owner"}

\* the users of a participants array
UsersOf(members) == {members[i].user : i \in DOMAIN members}

\* the for-loop of lines 617-622: chat.addParticipant for each new user
RECURSIVE AddAll(_, _)
AddAll(members, us) ==
  IF us = <<>> THEN members
  ELSE AddAll(IF Head(us) \in UsersOf(members) THEN members
              ELSE Append(members, [user |-> Head(us), role |-> "member"]),
              Tail(us))

\* chatSchema.methods.removeParticipant
RemoveParticipant(members, u) == SelectSeq(members, LAMBDA p : p.user # u)

\* a route's write of the participants array
SetMembers(c, members) ==
  /\ chatRoles' = [chatRoles EXCEPT ![c].members = members]
  /\ chats' = [chats EXCEPT ![c].participants = UsersOf(members)]

\* router.post('/:chatId/participants')
HttpAddParticipants(by, c, us) ==
  /\ called < MaxCalls
  /\ called' = called + 1
  /\ lastCmd' = HttpCmd("add_participants", by, c, us)
  /\ IF ~ChatExists(c) THEN UNCHANGED <<chats, chatRoles>>
     ELSE IF ~chatRoles[c].isGroupChat \/ ~IsAdmin(c, by) THEN UNCHANGED <<chats, chatRoles>>
     ELSE SetMembers(c, AddAll(chatRoles[c].members, SelectSeq(us, LAMBDA u : u \in Users)))
  /\ UNCHANGED <<handshake, userId, connected, setup, disc, rooms, inbox, activeUsers,
                 activeCalls, userDb, messages, ops, roomLog, typed, presenceLog,
                 clock, callHistory, broken, clientVars, markVars>>

\* router.delete('/:chatId/participants/:userId')
HttpRemoveParticipant(by, c, u) ==
  /\ called < MaxCalls
  /\ called' = called + 1
  /\ lastCmd' = HttpCmd("remove_participant", by, c, <<u>>)
  /\ IF ~ChatExists(c) THEN UNCHANGED <<chats, chatRoles>>
     ELSE IF \/ ~chatRoles[c].isGroupChat
             \/ (~IsAdmin(c, by) /\ u # by)
             \/ u = chatRoles[c].creator
          THEN UNCHANGED <<chats, chatRoles>>
     ELSE SetMembers(c, RemoveParticipant(chatRoles[c].members, u))
  /\ UNCHANGED <<handshake, userId, connected, setup, disc, rooms, inbox, activeUsers,
                 activeCalls, userDb, messages, ops, roomLog, typed, presenceLog,
                 clock, callHistory, broken, clientVars, markVars>>

\* the ownership transfer of the leave route (lines 704-725): to the first
\* other admin, else to the first other member; 0 when there is nobody
Heir(members, by) ==
  LET admins == {i \in DOMAIN members : members[i].role = "admin" /\ members[i].user # by}
      others == {i \in DOMAIN members : members[i].user # by}
      Min(S) == CHOOSE i \in S : \A j \in S : i <= j
  IN  IF admins # {} THEN Min(admins) ELSE IF others # {} THEN Min(others) ELSE 0

\* router.post('/:chatId/leave')
HttpLeave(by, c) ==
  /\ called < MaxCalls
  /\ called' = called + 1
  /\ lastCmd' = HttpCmd("leave", by, c, <<by>>)
  /\ IF ~ChatExists(c) THEN UNCHANGED <<chats, chatRoles>>
     ELSE IF ~chatRoles[c].isGroupChat \/ ~IsParticipant(c, by)
          THEN UNCHANGED <<chats, chatRoles>>
     ELSE LET members == chatRoles[c].members
              h == Heir(members, by)
              moved == IF chatRoles[c].creator = by /\ h # 0
                       THEN [members EXCEPT ![h].role = "owner"]
                       ELSE members
              left == RemoveParticipant(moved, by)
          IN /\ chatRoles' = [chatRoles EXCEPT
                                ![c].members = left,
                                ![c].creator = IF chatRoles[c].creator = by /\ h # 0
                                               THEN members[h].user ELSE @]
             /\ chats' = [chats EXCEPT ![c].participants = UsersOf(left)]
  /\ UNCHANGED <<handshake, userId, connected, setup, disc, rooms, inbox, activeUsers,
                 activeCalls, userDb, messages, ops, roomLog, typed, presenceLog,
                 clock, callHistory, broken, clientVars, markVars>>

\* The state after u1 has sent message 1 to chat c1 and u2 message 2 to
\* chat c2 from the state of InitChat, both handlers having run to their end.
InitStatus ==
  /\ handshake = <<"tok_u1", "tok_u1", "tok_u2">>
  /\ userId = <<"u1", "u1", "u2">>
  /\ connected = <<TRUE, TRUE, TRUE>>
  /\ setup = <<"ready", "ready", "ready">>
  /\ disc = <<"none", "none", "none">>
  /\ rooms = << {UserRoom("u1"), ChatRoom("c1")},
                {UserRoom("u1"), ChatRoom("c1")},
                {UserRoom("u2"), ChatRoom("c1"), ChatRoom("c2")} >>
  /\ messages = << [id |-> 1, sender |-> "u1", chat |-> "c1", status |-> "sent"],
                   [id |-> 2, sender |-> "u2", chat |-> "c2", status |-> "sent"] >>
  /\ inbox = << <<UserOnline("u1"), UserOnline("u2"), NewMessage(messages[1])>>,
                <<UserOnline("u2"), NewMessage(messages[1])>>,
                <<NewMessage(messages[1]), NewMessage(messages[2])>> >>
  /\ activeUsers = [u \in SocketUsers |-> [socketId |-> IF u = "u1" THEN 2 ELSE 3]]
  /\ activeCalls = <<>>
  /\ userDb = [u \in Users |-> IF u = "u1" THEN [isOnline |-> TRUE, socketId |-> 2]
                                ELSE IF u = "u2" THEN [isOnline |-> TRUE, socketId |-> 3]
                                ELSE [isOnline |-> FALSE, socketId |-> 0]]
  /\ chats = [c \in StoredChats |->
                [participants |-> IF c = "c1" THEN {"u1", "u2"} ELSE {"u2"},
                 lastMessage |-> IF c = "c1" THEN 1 ELSE 2, lastActivity |-> 1]]
  /\ ops = << [kind |-> "send", sock |-> 1, chat |-> "c1", valid |-> TRUE,
               pc |-> "done", msg |-> 1],
              [kind |-> "send", sock |-> 3, chat |-> "c2", valid |-> TRUE,
               pc |-> "done", msg |-> 2] >>
  /\ roomLog = [c \in ChatIds |-> IF c = "c1" THEN <<1>> ELSE IF c = "c2" THEN <<2>> ELSE <<>>]
  /\ typed = 0
  /\ presenceLog = <<UserOnline("u1"), UserOnline("u1"), UserOnline("u2")>>
  /\ lastCmd = NoCmd
  /\ clock = 0
  /\ callHistory = <<>>
  /\ called = 0
  /\ broken = {}
  /\ typingTimer = [s \in Sockets |-> 0]
  /\ timers = [s \in Sockets |-> {}]
  /\ isTyping = [s \in Sockets |-> [c \in StoredChats |-> {}]]
  /\ typingTimeouts = [s \in Sockets |-> <<>>]
  /\ chatRoles = InitRoles
  /\ deliveredTo = <<>>
  /\ readBy = <<>>
  /\ marks = <<>>

\* message_delivered and message_read for the two messages and for an
\* unknown id, from all three connections
NextStatus ==
  \/ \E s \in Sockets, kind \in {"delivered", "read"}, m \in MarkIds : MarkStart(s, kind, m)
  \/ \E o \in DOMAIN marks : MarkFind(o)
  \/ \E o \in DOMAIN marks : MarkSave(o)

SpecStatus == InitStatus /\ [][NextStatus]_vars

\* u1, who is no participant of chat c2, types in c2 and marks message 2 of
\* c2 from its first connection, while u2 marks its own message
NextOutsider ==
  \/ TypingStart(1, "c2") /\ UNCHANGED clientVars
  \/ TypingStop(1, "c2") /\ UNCHANGED clientVars
  \/ \E s \in {1, 3}, kind \in {"delivered", "read"} : MarkStart(s, kind, 2)
  \/ \E o \in DOMAIN marks : MarkFind(o)
  \/ \E o \in DOMAIN marks : MarkSave(o)

SpecOutsider == InitStatus /\ [][NextOutsider]_vars

\* router.post('/') and router.post('/media') of routes/messages.js: the
\* message is saved and the chat's lastMessage set; the route has no access
\* to the socket server
HttpPostMessage(by, c, route) ==
  /\ called < MaxCalls
  /\ called' = called + 1
  /\ lastCmd' = HttpCmd(route, by, c, <<>>)
  /\ IF ~ChatExists(c) THEN UNCHANGED <<messages, chats>>
     ELSE IF ~IsParticipant(c, by) THEN UNCHANGED <<messages, chats>>
     ELSE LET id == Len(messages) + 1
          IN /\ messages' = Append(messages,
                               [id |-> id, sender |-> by, chat |-> c, status |-> "sent"])
             /\ chats' = [chats EXCEPT ![c].lastMessage = id, ![c].lastActivity = id]
  /\ UNCHANGED <<handshake, userId, connected, setup, disc, rooms, inbox, activeUsers,
                 activeCalls, userDb, ops, roomLog, typed, presenceLog,
                 clock, callHistory, broken, clientVars, chatRoles, markVars>>

\* messages sent to the chats over the socket and over the two HTTP routes
NextPost ==
  \/ \E s \in {1, 3} : SendMessage(s, "c1", TRUE)
  \/ \E o \in DOMAIN ops : SendFind(o)
  \/ \E o \in DOMAIN ops : SendSave(o)
  \/ \E o \in DOMAIN ops : SendChatSave(o)
  \/ \E by \in SocketUsers, c \in ChatIds, route \in {"post_message", "post_media"} :
        HttpPostMessage(by, c, route)

SpecPost == InitChat /\ [][NextPost]_vars

\* chat c1 opened and closed in the chat window of u1's first client, the
\* members of c1 and c2 changing, and u2 sending messages to both chats
NextMembers ==
  \/ JoinChat(1, "c1")
  \/ \E o \in DOMAIN ops : JoinFind(o)
  \/ LeaveChat(1, "c1")
  \/ \E c \in StoredChats : SendMessage(3, c, TRUE)
  \/ \E o \in DOMAIN ops : SendFind(o)
  \/ \E o \in DOMAIN ops : SendSave(o)
  \/ \E o \in DOMAIN ops : SendChatSave(o)
  \/ \E by \in SocketUsers : HttpAddParticipants(by, "c2", <<"u1">>)
  \/ \E by \in SocketUsers : HttpRemoveParticipant(by, "c1", "u1")
  \/ \E by \in SocketUsers : HttpLeave(by, "c1")

SpecMembers == InitChat /\ [][NextMembers]_vars

\* the participantIds of the /start requests made: the initiator alone,
\* one invitee, two invitees
ParticipantLists == {<<"u1">>, <<"u2">>, <<"u2", "u3">>}

\* the call ids an HTTP client can name
HttpCallIds == {CallId(t * Second, "u1") : t \in 0..MaxClock}

\* the HTTP call routes: u1 starts calls, every user ends, joins and rejects,
\* while the three socket connections are established
NextHttp ==
  \/ \E ids \in ParticipantLists : HttpStart("u1", ids)
  \/ \E u \in Users, id \in HttpCallIds : HttpEnd(u, id)
  \/ \E u \in Users, id \in HttpCallIds : HttpJoin(u, id)
  \/ \E u \in Users, id \in HttpCallIds : HttpReject(u, id)
  \/ Tick

SpecHttp == InitChat /\ [][NextHttp]_vars

(***************************************************************************)
(* Helpers of the properties.                                               *)
(***************************************************************************)
Count(seq, e) == Cardinality({i \in DOMAIN seq : seq[i] = e})

\* the live connections of user u
LiveOf(u) == {s \in Sockets : connected[s] /\ userId[s] = u}

\* the presence broadcasts about user u, in the order they were made
PresenceOf(u) == SelectSeq(presenceLog, LAMBDA e : e.user = u)

\* the ids of the new_message events of chat c that connection s has got
GotOf(s, c) == SelectSeq(inbox[s], LAMBDA e : e.type = "new_message" /\ e.chat = c)

\* the user_typing events about user u in chat c that connection s has got
TypingOf(s, c, u) ==
  SelectSeq(inbox[s], LAMBDA e : e.type = "user_typing" /\ e.chat = c /\ e.user = u)

\* the position of message id in the emit order of chat c
PosIn(c, id) == CHOOSE k \in DOMAIN roomLog[c] : roomLog[c][k] = id

RejectedTokens == {NoToken, BadToken, GhostToken}

(***************************************************************************)
(* C1: the presence broadcasts about one user strictly alternate            *)
(* user_online, user_offline, user_online, ..., one per 0->1 or 1->0 change *)
(* of the user's live-connection count, none for intermediate connections.  *)
(* The server broadcasts on every connection and every disconnection.       *)
(***************************************************************************)
C1_PresenceAlternates ==
  \A u \in Users :
    LET p == PresenceOf(u) IN
      /\ Len(p) > 0 => p[1].type = "user_online"
      /\ \A i \in 1..(Len(p) - 1) : p[i].type # p[i + 1].type

(***************************************************************************)
(* C2: at every observation point a user has an entry in activeUsers iff    *)
(* the user has at least one live connection.                               *)
(***************************************************************************)
C2_OnlineIffLive ==
  \A u \in Users : (u \in DOMAIN activeUsers) <=> (LiveOf(u) # {})

(***************************************************************************)
(* C3: when a user with a live connection opens a second connection, the    *)
(* first connection is not disconnected, not unsubscribed from any room,    *)
(* and not dropped from the registry.                                       *)
(***************************************************************************)
C3_FirstConnectionKept ==
  [][\A s, t \in Sockets :
       (/\ handshake[t] = NoSocket
        /\ connected'[t]
        /\ connected[s]
        /\ userId'[t] = userId[s]
        /\ userId[s] \in DOMAIN activeUsers
        /\ activeUsers[userId[s]].socketId = s)
       => /\ connected'[s]
          /\ rooms'[s] = rooms[s]
          /\ inbox'[s] = inbox[s]
          /\ activeUsers'[userId[s]].socketId = s]_vars

\* the part of C3 the server does keep: the first connection stays
\* connected, subscribed and unnotified
C3_FirstConnectionStaysSubscribed ==
  [][\A s, t \in Sockets :
       (/\ handshake[t] = NoSocket
        /\ connected'[t]
        /\ connected[s]
        /\ userId'[t] = userId[s])
       => /\ connected'[s]
          /\ rooms'[s] = rooms[s]
          /\ inbox'[s] = inbox[s]]_vars

(***************************************************************************)
(* C4: when a message is emitted to chat room R, every connection           *)
(* subscribed to R at that moment, the sender's connections included, gets  *)
(* exactly one new_message for it, and no other connection gets it.         *)
(***************************************************************************)
C4_FanOut ==
  /\ [](\A s \in Sockets : \A i \in DOMAIN messages :
          Count(inbox[s], NewMessage(messages[i])) <= 1)
  /\ [][\A c \in ChatIds :
          roomLog'[c] # roomLog[c]
          => LET m == messages[roomLog'[c][Len(roomLog'[c])]] IN
               /\ m.chat = c
               /\ \A s \in Sockets :
                    inbox'[s] = IF connected[s] /\ ChatRoom(c) \in rooms[s]
                                THEN inbox[s] \o <<NewMessage(m)>>
                                ELSE inbox[s]]_vars

\* a message of u1 in c1 has reached both connections of u1 and the
\* connection of u2, while a message in c2 has reached only u2's connection
C4_Witness ==
  /\ \E i \in DOMAIN messages :
       /\ messages[i].chat = "c1" /\ messages[i].sender = "u1"
       /\ \A s \in Sockets : Count(inbox[s], NewMessage(messages[i])) = 1
  /\ \E i \in DOMAIN messages :
       /\ messages[i].chat = "c2"
       /\ Count(inbox[3], NewMessage(messages[i])) = 1
       /\ Count(inbox[1], NewMessage(messages[i])) = 0
       /\ Count(inbox[2], NewMessage(messages[i])) = 0

(***************************************************************************)
(* C5: for every chat room, every connection observes the room's messages   *)
(* in the order in which they were handed to the room emit.                 *)
(***************************************************************************)
C5_RoomOrder ==
  \A s \in Sockets : \A c \in ChatIds :
    LET got == GotOf(s, c) IN
      /\ \A i \in DOMAIN got : \E k \in DOMAIN roomLog[c] : roomLog[c][k] = got[i].id
      /\ \A i, j \in DOMAIN got :
           i < j => PosIn(c, got[i].id) < PosIn(c, got[j].id)

\* a connection has got two messages of one chat that were emitted in the
\* reverse of the order in which they were saved
C5_Witness ==
  \E s \in Sockets : \E c \in ChatIds :
    /\ Len(GotOf(s, c)) = 2
    /\ GotOf(s, c)[1].id > GotOf(s, c)[2].id

(***************************************************************************)
(* C6: leave_chat for a room the connection is not in, and the disconnect   *)
(* handler for a user who has no activeUsers entry any more, are no-ops:    *)
(* they change neither activeUsers nor any remaining connection's rooms,    *)
(* and they raise no error (no error event, no connection dropped, the      *)
(* disconnect handler runs on).                                             *)
(***************************************************************************)
C6_AbsentIsNoOp ==
  /\ [][\A s \in Sockets : \A c \in ChatIds :
          (lastCmd' = Cmd("leave_chat", s, c) /\ ChatRoom(c) \notin rooms[s])
          => /\ rooms' = rooms
             /\ activeUsers' = activeUsers
             /\ inbox' = inbox
             /\ connected' = connected]_vars
  /\ [][\A s \in Sockets :
          (/\ lastCmd' = Cmd("disconnect", s, NoChat)
           /\ connected[s]
           /\ setup[s] = "ready"
           /\ userId[s] \notin DOMAIN activeUsers)
          => /\ activeUsers' = activeUsers
             /\ \A t \in Sockets \ {s} : rooms'[t] = rooms[t] /\ connected'[t] = connected[t]
             /\ inbox' = inbox
             /\ disc'[s] = "await_user"]_vars

\* both connections of one user were live together, the first has gone
\* (its handler deleted the entry) and now the second has disconnected
C6_Witness ==
  /\ lastCmd = Cmd("disconnect", 2, NoChat)
  /\ userId[1] = userId[2]
  /\ disc[1] # "none"
  /\ disc[2] = "await_user"
  /\ Count(inbox[1], UserOnline(userId[2])) = 1
  /\ handshake[3] = NoSocket

(***************************************************************************)
(* C7: a connection attempt with no token, an invalid token or the token    *)
(* of a nonexistent user is rejected before registration: the socket is     *)
(* never connected, its connection handler never starts, it has no          *)
(* activeUsers entry or User record, is in no room, receives nothing, no    *)
(* user_online is broadcast for it and none of its commands is handled.     *)
(***************************************************************************)
C7_RejectedBeforeRegistration ==
  \A s \in Sockets :
    handshake[s] \in RejectedTokens
    => /\ ~connected[s]
       /\ userId[s] = NoUser
       /\ setup[s] = "none"
       /\ disc[s] = "none"
       /\ rooms[s] = {}
       /\ inbox[s] = <<>>
       /\ \A u \in DOMAIN activeUsers : activeUsers[u].socketId # s
       /\ \A u \in DOMAIN userDb : userDb[u].socketId # s
       /\ \A i \in DOMAIN presenceLog : presenceLog[i].user \in Users
       /\ lastCmd.sock = s => lastCmd.op = "connection"

\* the first client presented the token of a user that does not exist and
\* was turned away: nobody is registered
C7_Witness ==
  /\ handshake[1] = GhostToken
  /\ lastCmd = Cmd("connection", 1, NoChat)
  /\ activeUsers = <<>>

(***************************************************************************)
(* C8: join_chat(R) subscribes the connection to chat:R only if chat R      *)
(* exists and the connection's user is a participant of R when the handler  *)
(* checks; otherwise the connection's rooms are unchanged.  Either way no   *)
(* other connection's rooms change, nothing is sent and nobody is           *)
(* disconnected.                                                            *)
(***************************************************************************)
C8_JoinOnlyParticipants ==
  /\ [](\A s \in Sockets : \A c \in ChatIds :
          ChatRoom(c) \in rooms[s] => c \in DOMAIN chats /\ userId[s] \in chats[c].participants)
  /\ [][\A o \in DOMAIN ops :
          (ops[o].kind = "join" /\ ops[o].pc = "find" /\ ops'[o].pc # "find")
          => LET s == ops[o].sock
                 c == ops[o].chat
             IN /\ rooms'[s] = IF c \in DOMAIN chats /\ userId[s] \in chats[c].participants
                               THEN rooms[s] \cup {ChatRoom(c)}
                               ELSE rooms[s]
                /\ \A t \in Sockets \ {s} : rooms'[t] = rooms[t]
                /\ inbox' = inbox
                /\ connected' = connected]_vars

\* u1 has asked to join c2, of which it is no participant, and a chat that
\* does not exist; both handlers have finished and the connection lives on
C8_Witness ==
  \E o, q \in DOMAIN ops :
    /\ ops[o].kind = "join" /\ ops[o].pc = "done" /\ ops[o].chat = "c2"
    /\ ops[q].kind = "join" /\ ops[q].pc = "done" /\ ops[q].chat = "c9"
    /\ ops[o].sock = 1 /\ ops[q].sock = 1
    /\ connected[1]
    /\ rooms[1] = {UserRoom("u1"), ChatRoom("c1")}

(***************************************************************************)
(* C9: send_message to a chat that does not exist, or of which the sender   *)
(* is no participant, is refused: no message is persisted, the chats are    *)
(* unchanged, nothing is emitted to any room, the sending connection alone  *)
(* gets an error event (if it is still connected), and no connection is     *)
(* dropped.                                                                 *)
(***************************************************************************)
C9_UnauthorizedSendRefused ==
  /\ [](\A i \in DOMAIN messages :
          /\ messages[i].chat \in DOMAIN chats
          /\ messages[i].sender \in chats[messages[i].chat].participants)
  /\ [](\A o \in DOMAIN ops : ops[o].pc = "refused" => ops[o].msg = 0)
  /\ [][\A o \in DOMAIN ops :
          ops[o].pc = "refused" => ops'[o].pc = "refused"]_vars
  /\ [][\A o \in DOMAIN ops :
          (/\ ops[o].kind = "send" /\ ops[o].pc = "find" /\ ops'[o].pc # "find"
           /\ ~(/\ ops[o].chat \in DOMAIN chats
                /\ userId[ops[o].sock] \in chats[ops[o].chat].participants))
          => LET s == ops[o].sock IN
               /\ ops'[o].pc = "refused"
               /\ messages' = messages
               /\ chats' = chats
               /\ roomLog' = roomLog
               /\ \A t \in Sockets \ {s} : inbox'[t] = inbox[t]
               /\ inbox'[s] = IF connected[s]
                              THEN inbox[s] \o <<ErrorEv("Unauthorized")>>
                              ELSE inbox[s]
               /\ connected' = connected
               /\ rooms' = rooms]_vars

\* u1's second connection has sent to c2 and got the error, while another
\* message was accepted and persisted
C9_Witness ==
  \E o \in DOMAIN ops :
    /\ ops[o].kind = "send" /\ ops[o].pc = "refused"
    /\ ops[o].chat = "c2" /\ ops[o].sock = 2
    /\ connected[2]
    /\ Count(inbox[2], ErrorEv("Unauthorized")) = 1
    /\ Len(messages) = 1
    /\ chats["c2"].lastMessage = 0

(***************************************************************************)
(* C10 as stated: repeated typing_start signals of one user for one room,   *)
(* with no typing_stop in between, give the other subscribers one           *)
(* user_typing(isTyping=true) only, never two starts in a row.  (A          *)
(* connection that is in the room now has been in it since the start.)      *)
(***************************************************************************)
C10_NeverTwoStarts ==
  \A t \in Sockets : \A c \in StoredChats : \A u \in Users :
    (connected[t] /\ ChatRoom(c) \in rooms[t] /\ userId[t] # u)
    => LET ty == TypingOf(t, c, u) IN
         \A i \in 1..(Len(ty) - 1) : ~(ty[i].flag /\ ty[i + 1].flag)

(***************************************************************************)
(* C10, what the server does instead: it relays every typing signal.  Each  *)
(* typing_start gives every other connection subscribed to the room one     *)
(* user_typing(isTyping=true), each typing_stop one                         *)
(* user_typing(isTyping=false); the signalling connection and connections   *)
(* outside the room get nothing.                                            *)
(***************************************************************************)
C10_EverySignalRelayed ==
  [][\A s \in Sockets : \A c \in ChatIds : \A b \in BOOLEAN :
       (/\ typed' = typed + 1
        /\ lastCmd' = Cmd(IF b THEN "typing_start" ELSE "typing_stop", s, c))
       => \A t \in Sockets :
            inbox'[t] = IF t # s /\ connected[t] /\ ChatRoom(c) \in rooms[t]
                        THEN inbox[t] \o <<UserTyping(c, userId[s], b)>>
                        ELSE inbox[t]]_vars

\* start, refresh, stop of u1 in c1: u2's connection has got two starts and
\* then one stop
C10_Witness ==
  /\ typed = 3
  /\ TypingOf(3, "c1", "u1") = <<UserTyping("c1", "u1", TRUE),
                                 UserTyping("c1", "u1", TRUE),
                                 UserTyping("c1", "u1", FALSE)>>
  /\ TypingOf(1, "c1", "u1") = <<>>

\* the other party of a call of user u
OtherParty(call, u) == IF call.caller = u THEN call.target ELSE call.caller

(***************************************************************************)
(* C11: a user who starts typing in a room and then neither refreshes nor   *)
(* stops has, once the window is over, been reported to the other           *)
(* subscribers as stopped, and exactly once: no start is followed by two    *)
(* stops.                                                                   *)
(* Stated for u1's first connection typing in c1 as seen by u2's connection.*)
(***************************************************************************)
\* one start is followed by two stops
StopsTwice(evs) ==
  \E i \in 1..(Len(evs) - 2) : evs[i].flag /\ ~evs[i + 1].flag /\ ~evs[i + 2].flag

C11_ExactlyOneStop ==
  LET evs == TypingOf(3, "c1", "u1")
  IN  /\ ~StopsTwice(evs)
      /\ timers[1] = {} /\ evs # <<>> => ~evs[Len(evs)].flag

\* what the code does do: the timeout of a live client sends one stop, which
\* every other connection in the room gets once
C11_TimerSendsOneStop ==
  [][\A id \in 1..MaxTyping :
        id \in timers[1] /\ id \notin timers'[1] /\ connected[1]
        /\ lastCmd'.op = "typing_stop"
        => \A t \in Sockets :
             inbox'[t] = IF t # 1 /\ connected[t] /\ ChatRoom("c1") \in rooms[t]
                         THEN Append(inbox[t], UserTyping("c1", "u1", FALSE))
                         ELSE inbox[t]]_vars

(***************************************************************************)
(* C21: on a receiving client the timeout clears a user from isTyping[chat] *)
(* only when it is the timeout of the most recent typing-start for the      *)
(* pair: no typing-start of the pair that arrived less than 3 seconds ago   *)
(* is still waiting to expire, so a refresh has rescheduled the expiry.     *)
(***************************************************************************)
C21_RefreshReschedules ==
  [][\A s \in Sockets, c \in StoredChats, u \in SocketUsers :
        u \in isTyping[s][c] /\ u \notin isTyping'[s][c] /\ lastCmd'.op = "timeout"
        => \A i \in DOMAIN typingTimeouts'[s] :
             ~(/\ typingTimeouts'[s][i].chat = c
               /\ typingTimeouts'[s][i].user = u
               /\ typingTimeouts'[s][i].age < TypingTtl)]_vars

\* what the code does do: a user is cleared by timeout no earlier than 3
\* seconds after a typing-start, and a shown user has a timeout pending
C21_ShownHasTimeout ==
  \A s \in Sockets, c \in StoredChats, u \in SocketUsers :
     u \in isTyping[s][c]
     => \E i \in DOMAIN typingTimeouts[s] :
          typingTimeouts[s][i].chat = c /\ typingTimeouts[s][i].user = u

(***************************************************************************)
(* C22: once the connections of a user have all closed and no handler of    *)
(* theirs is still waiting, the user has been cleaned up, whenever the      *)
(* closes happened: no activeUsers entry, no call left in activeCalls, and  *)
(* the last presence broadcast about the user is not user_online.           *)
(***************************************************************************)
\* no handler of an accepted connection of user u is waiting to resume
Settled(u) ==
  \A s \in Sockets :
     userId[s] = u => setup[s] = "ready" /\ disc[s] # "await_user"

C22_ClosedIsCleanedUp ==
  \A u \in SocketUsers :
     (\E s \in Sockets : userId[s] = u) /\ LiveOf(u) = {} /\ Settled(u)
     => /\ u \notin DOMAIN activeUsers
        /\ CallsOf(activeCalls, u) = <<>>
        /\ PresenceOf(u) # <<>> => PresenceOf(u)[Len(PresenceOf(u))].type = "user_offline"

\* what the code does do: a connection that closes after its setup has
\* finished gets its disconnect handler, which removes the entry at once
C22_ReadyCloseCleansUp ==
  [][\A s \in Sockets :
        connected[s] /\ ~connected'[s] /\ setup[s] = "ready"
        => userId[s] \notin DOMAIN activeUsers' /\ disc'[s] = "await_user"]_vars

(***************************************************************************)
(* C23: every new_message published to a chat reaches every connection      *)
(* that is live and set up and whose user is a participant of the chat at   *)
(* the time, whatever join_chat and leave_chat commands the connection has  *)
(* sent and whenever the user became a participant.                         *)
(***************************************************************************)
C23_ParticipantsGetMessages ==
  [][\A c \in StoredChats :
        roomLog'[c] # roomLog[c]
        => \A t \in Sockets :
             Listening(t) /\ IsParticipant(c, userId[t])
             => inbox'[t] = Append(inbox[t],
                                   NewMessage(messages[roomLog'[c][Len(roomLog'[c])]]))]_vars

\* what the code does do: a connection that sends no leave_chat stays in
\* the rooms its setup joined
C23_LeaveOnlyOnCommand ==
  [][\A t \in Sockets, c \in StoredChats :
        ChatRoom(c) \in rooms[t] /\ ChatRoom(c) \notin rooms'[t]
        => lastCmd' = Cmd("leave_chat", t, c)]_vars

(***************************************************************************)
(* C24: a new_message of a chat reaches only connections whose user is a    *)
(* participant of the chat when it is broadcast: a user who was removed or  *)
(* has left gets no later message of the chat.                              *)
(***************************************************************************)
C24_OnlyParticipantsGetMessages ==
  [][\A c \in StoredChats :
        roomLog'[c] # roomLog[c]
        => \A t \in Sockets : inbox'[t] # inbox[t] => IsParticipant(c, userId[t])]_vars

\* what the code does: the group routes change the participants and leave
\* every room subscription as it is
C24_RoutesTouchNoRoom ==
  [][lastCmd'.op \in {"add_participants", "remove_participant", "leave"}
     => rooms' = rooms /\ inbox' = inbox]_vars

(***************************************************************************)
(* C25: when one connection sends two messages to the same chat, no         *)
(* connection gets the new_message of the second before that of the first,  *)
(* however the steps of the two handlers interleave.                        *)
(***************************************************************************)
\* the position of message id among the new_message events got, 0 if absent
GotPos(got, id) ==
  IF \E i \in DOMAIN got : got[i].id = id
  THEN CHOOSE i \in DOMAIN got : got[i].id = id
  ELSE 0

C25_SenderOrderKept ==
  \A o1, o2 \in DOMAIN ops :
     /\ o1 < o2
     /\ ops[o1].kind = "send" /\ ops[o2].kind = "send"
     /\ ops[o1].sock = ops[o2].sock /\ ops[o1].chat = ops[o2].chat
     /\ ops[o1].pc = "done" /\ ops[o2].pc = "done"
     => \A t \in Sockets :
          LET got == GotOf(t, ops[o1].chat)
              p1 == GotPos(got, ops[o1].msg)
              p2 == GotPos(got, ops[o2].msg)
          IN  p1 # 0 /\ p2 # 0 => p1 < p2

\* what the code does do: the handlers take up the commands of a connection
\* in the order sent
C25_StartedInOrder ==
  [][\A o \in DOMAIN ops : o \in DOMAIN ops' /\ ops'[o].sock = ops[o].sock
                             /\ ops'[o].chat = ops[o].chat /\ ops'[o].kind = ops[o].kind]_vars

(***************************************************************************)
(* C26: every persisted message, whichever way it was sent, is broadcast    *)
(* to its chat room exactly once: a stored message that no send_message     *)
(* handler is still about to emit is in the room's emit log once, and every *)
(* connection in the room has got it once.                                  *)
(***************************************************************************)
\* a send_message handler has saved message id and has yet to emit it
AboutToEmit(id) ==
  \E o \in DOMAIN ops : ops[o].kind = "send" /\ ops[o].pc = "chatsave" /\ ops[o].msg = id

C26_PersistedIsBroadcast ==
  \A i \in DOMAIN messages :
     ~AboutToEmit(messages[i].id)
     => /\ Count(roomLog[messages[i].chat], messages[i].id) = 1
        /\ \A t \in Sockets :
             connected[t] /\ ChatRoom(messages[i].chat) \in rooms[t]
             => GotPos(GotOf(t, messages[i].chat), messages[i].id) # 0

\* what the code does do: a message sent with send_message is emitted to
\* its room once
C26_SocketSendBroadcastOnce ==
  \A o \in DOMAIN ops :
     ops[o].kind = "send" /\ ops[o].pc = "done"
     => Count(roomLog[ops[o].chat], ops[o].msg) = 1

(***************************************************************************)
(* C27: answer_call and reject_call on a call change it and notify somebody *)
(* only when the call's target issues them, end_call only when the caller   *)
(* or the target issues it; issued by anybody else they leave activeCalls   *)
(* as it is and push nothing.                                               *)
(***************************************************************************)
C27_OnlyPartiesChangeCall ==
  [][\A i \in DOMAIN activeCalls :
        /\ lastCmd'.op \in {"answer_call", "reject_call", "end_call"}
        /\ lastCmd'.call = activeCalls[i].id
        /\ IF lastCmd'.op = "end_call"
           THEN userId[lastCmd'.sock] \notin {activeCalls[i].caller, activeCalls[i].target}
           ELSE userId[lastCmd'.sock] # activeCalls[i].target
        => activeCalls' = activeCalls /\ inbox' = inbox]_vars

\* what the code does do: a call command changes at most the call it names
C27_OnlyNamedCallChanges ==
  [][\A i \in DOMAIN activeCalls :
        /\ lastCmd'.op \in {"answer_call", "reject_call", "end_call"}
        /\ lastCmd'.call # activeCalls[i].id
        => \E j \in DOMAIN activeCalls' : activeCalls'[j] = activeCalls[i]]_vars

(***************************************************************************)
(* C28: a ringing or active call stays in activeCalls, and nobody is told   *)
(* it has ended, when one connection of a participant closes while another  *)
(* connection of that participant is live.                                  *)
(***************************************************************************)
C28_OtherConnectionKeepsCall ==
  [][\A s \in Sockets :
        disc[s] = "await_user" /\ disc'[s] = "done" /\ LiveOf(userId[s]) # {}
        => /\ activeCalls' = activeCalls
           /\ \A t \in Sockets :
                \A k \in DOMAIN inbox'[t] :
                   k > Len(inbox[t]) => inbox'[t][k].type # "call_ended"]_vars

\* what the code does do: the disconnect handler ends exactly the calls of
\* the user of the closed connection
C28_EndsOnlyOwnCalls ==
  [][\A s \in Sockets :
        disc[s] = "await_user" /\ disc'[s] = "done"
        => activeCalls' = SelectSeq(activeCalls,
                            LAMBDA call : call.caller # userId[s] /\ call.target # userId[s])]_vars

(***************************************************************************)
(* C29: a typing_start or typing_stop naming a chat, and a                  *)
(* message_delivered or message_read naming a message of a chat, push       *)
(* nothing to anybody and record nothing when the user who issued it is no  *)
(* participant of the chat.                                                 *)
(***************************************************************************)
C29_OnlyParticipantsRelay ==
  [][/\ lastCmd'.op \in {"typing_start", "typing_stop"}
        /\ ~IsParticipant(lastCmd'.arg, userId[lastCmd'.sock])
        => inbox' = inbox
     /\ \A o \in DOMAIN marks :
          /\ marks[o].pc = "save" /\ marks'[o].pc = "done"
          /\ ~IsParticipant(messages[marks[o].msg].chat, userId[marks[o].sock])
          => /\ inbox' = inbox
             /\ messages' = messages
             /\ deliveredTo' = deliveredTo
             /\ readBy' = readBy]_vars

\* what the code does do: a typing or status event reaches only connections
\* that are in the room of the chat
C29_RelayStaysInRoom ==
  [][\A t \in Sockets :
        \A k \in DOMAIN inbox'[t] :
           k > Len(inbox[t]) /\ inbox'[t][k].type \in {"user_typing", "message_status_updated"}
           => ChatRoom(inbox'[t][k].chat) \in rooms[t]]_vars

(***************************************************************************)
(* C30: the status of a message only moves forward, sent, delivered, read:  *)
(* in the stored message, and in the view of every client, which takes the  *)
(* status of each message_status_updated it gets; and deliveredTo and       *)
(* readBy of a message hold every user at most once.                        *)
(***************************************************************************)
Rank(status) == CASE status = "sent" -> 0 [] status = "delivered" -> 1 [] status = "read" -> 2

\* the statuses client s has set message m to, in order (updateMessage)
StatusUpdates(s, m) ==
  SelectSeq(inbox[s], LAMBDA e : e.type = "message_status_updated" /\ e.id = m)

NoUserTwice(arr) == \A i, j \in DOMAIN arr : arr[i] = arr[j] => i = j

StoredForward == \A m \in DOMAIN messages : Rank(messages'[m].status) >= Rank(messages[m].status)

ViewForward ==
  \A s \in Sockets, m \in DOMAIN messages :
     \A i, j \in DOMAIN StatusUpdates(s, m) :
        i < j => Rank(StatusUpdates(s, m)[i].text) <= Rank(StatusUpdates(s, m)[j].text)

OncePerUser ==
  \A m \in DOMAIN messages :
     NoUserTwice(ArrayOf(deliveredTo, m)) /\ NoUserTwice(ArrayOf(readBy, m))

C30_StatusOnlyProgresses == [][StoredForward /\ ViewForward' /\ OncePerUser']_vars

\* what the code does do: a handler never writes a status lower than the
\* one its copy of the message had when it was loaded, and pushes a user the
\* copy did not hold
C30_CopyMovesForward ==
  [][\A o \in DOMAIN marks :
        marks[o].pc = "find" /\ marks'[o].pc = "save" /\ marks'[o].set # ""
        => Rank(marks'[o].set) > Rank(messages[marks[o].msg].status)]_vars

PartiesOf(call) ==
  {call.initiator} \cup {call.participants[k].user : k \in DOMAIN call.participants}

(***************************************************************************)
(* C13: for a call with invitees [A, B], the reject that leaves both A and  *)
(* B rejected, whichever comes last, puts the call into its terminal state  *)
(* with an end time and duration 0; a reject that leaves some invitee not   *)
(* rejected does not end the call (status, end time, duration unchanged).   *)
(***************************************************************************)
C13_AllRejectedEndsCall ==
  [][(lastCmd'.op = "reject" /\ called' = called + 1)
     => LET i == HistIdx(callHistory, lastCmd'.call) IN
          (i # 0 /\ lastCmd'.arg \in
                      {callHistory[i].participants[k].user :
                         k \in DOMAIN callHistory[i].participants})
          => LET old == callHistory[i]
                 new == callHistory'[i]
             IN IF \A k \in DOMAIN new.participants :
                     new.participants[k].status = "rejected"
                THEN /\ new.status = "rejected"
                     /\ new.endTime = clock
                     /\ new.duration = 0
                ELSE /\ new.status = old.status
                     /\ new.endTime = old.endTime
                     /\ new.duration = old.duration]_vars

\* u1 has called [u2, u3]; u3 has rejected, then u2: the call is over with
\* duration 0
C13_Witness ==
  /\ lastCmd.op = "reject"
  /\ lastCmd.arg = "u2"
  /\ \E i \in DOMAIN callHistory :
       /\ callHistory[i].participants = <<[user |-> "u2", status |-> "rejected"],
                                          [user |-> "u3", status |-> "rejected"]>>
       /\ callHistory[i].status = "rejected"
       /\ callHistory[i].duration = 0
       /\ callHistory[i].id = lastCmd.call

(***************************************************************************)
(* C14: when the last live connection of a participant of a ringing or      *)
(* active call drops, the call is ended automatically.  As steps: the drop  *)
(* starts the handler that ends the user's calls, and when that handler     *)
(* has run the user's calls are out of activeCalls and every live           *)
(* connection of the other party has got call_ended for them.               *)
(***************************************************************************)
C14_LastDropEndsCalls ==
  [][\A s \in Sockets :
       /\ (/\ connected[s] /\ ~connected'[s]
           /\ LiveOf(userId[s]) = {s}
           /\ CallsOf(activeCalls, userId[s]) # <<>>)
          => disc'[s] = "await_user"
       /\ (disc[s] = "await_user" /\ disc'[s] = "done")
          => /\ CallsOf(activeCalls', userId[s]) = <<>>
             /\ \A i \in DOMAIN activeCalls :
                  LET call == activeCalls[i] IN
                    (call.caller = userId[s] \/ call.target = userId[s])
                    => \A t \in InRoom(UserRoom(OtherParty(call, userId[s]))) :
                         Count(inbox'[t], CallEv("call_ended", call.id, NoUser))
                           > Count(inbox[t], CallEv("call_ended", call.id, NoUser))]_vars

\* the part of C14 the server does keep: a disconnect handler that runs
\* ends the calls of its user and tells the other party
C14_HandlerEndsCalls ==
  [][\A s \in Sockets :
       (disc[s] = "await_user" /\ disc'[s] = "done")
       => /\ CallsOf(activeCalls', userId[s]) = <<>>
          /\ \A i \in DOMAIN activeCalls :
               LET call == activeCalls[i] IN
                 (call.caller = userId[s] \/ call.target = userId[s])
                 => \A t \in InRoom(UserRoom(OtherParty(call, userId[s]))) :
                      Count(inbox'[t], CallEv("call_ended", call.id, NoUser))
                        > Count(inbox[t], CallEv("call_ended", call.id, NoUser))]_vars

(***************************************************************************)
(* C15: initiating a call whose invitee set, the initiator removed, is      *)
(* empty (a call to oneself) fails: no call session is created and no       *)
(* incoming_call is sent.                                                   *)
(***************************************************************************)
C15_SelfCallFails ==
  [][(/\ lastCmd'.op = "call_user"
      /\ called' = called + 1
      /\ lastCmd'.arg = userId[lastCmd'.sock])
     => /\ activeCalls' = activeCalls
        /\ inbox' = inbox]_vars

(***************************************************************************)
(* C16: accepting a call is valid only from the ringing state, where it     *)
(* makes the call active; accepting a call in another state, or a call      *)
(* the server does not know, changes no call and sends no call_answered.    *)
(***************************************************************************)
C16_AnswerOnlyRinging ==
  [][(lastCmd'.op = "answer_call" /\ called' = called + 1)
     => LET i == CallIdx(activeCalls, lastCmd'.call) IN
          IF i # 0 /\ activeCalls[i].status = "ringing"
          THEN activeCalls' = [activeCalls EXCEPT ![i].status = "active"]
          ELSE activeCalls' = activeCalls /\ inbox' = inbox]_vars

\* the part of C16 the server does keep: answering a call that is not in
\* activeCalls (unknown, rejected or ended) does nothing
C16_AnswerUnknownIgnored ==
  [][(/\ lastCmd'.op = "answer_call"
      /\ called' = called + 1
      /\ CallIdx(activeCalls, lastCmd'.call) = 0)
     => activeCalls' = activeCalls /\ inbox' = inbox]_vars

(***************************************************************************)
(* C17: an ice_candidate for call C is relayed only while C exists and is   *)
(* ringing or active; for an unknown or ended call nothing is relayed.      *)
(***************************************************************************)
C17_IceOnlyForLiveCall ==
  [][(/\ lastCmd'.op = "ice_candidate"
      /\ called' = called + 1
      /\ CallIdx(activeCalls, lastCmd'.call) = 0)
     => inbox' = inbox]_vars

(***************************************************************************)
(* C18: call signalling is point-to-point.  incoming_call reaches exactly   *)
(* the live connections of the invited user, call_answered and              *)
(* call_rejected exactly those of the call's initiator, ice_candidate       *)
(* exactly those of the named target user, and nobody else.                 *)
(***************************************************************************)
C18_PointToPoint ==
  [][called' = called + 1
     => LET i == CallIdx(activeCalls, lastCmd'.call) IN
          /\ lastCmd'.op \in {"call_user", "ice_candidate"}
             => Reached = LiveOf(lastCmd'.arg)
          /\ (lastCmd'.op \in {"answer_call", "reject_call"} /\ i # 0)
             => Reached = LiveOf(activeCalls[i].caller)]_vars

\* the part of C18 the server does keep: a signalling event reaches only
\* connections of the user it is meant for, namely those that have joined
\* the user's personal room
C18_OnlyToNamedUser ==
  [][called' = called + 1
     => LET i == CallIdx(activeCalls, lastCmd'.call) IN
          /\ lastCmd'.op \in {"call_user", "ice_candidate"}
             => /\ Reached = InRoom(UserRoom(lastCmd'.arg))
                /\ Reached \subseteq LiveOf(lastCmd'.arg)
          /\ (lastCmd'.op \in {"answer_call", "reject_call"} /\ i # 0)
             => /\ Reached = InRoom(UserRoom(activeCalls[i].caller))
                /\ Reached \subseteq LiveOf(activeCalls[i].caller)]_vars

\* the part of C15 the server does keep: POST /start with nobody but the
\* initiator in participantIds creates no call record
C15_HttpSelfStartFails ==
  [][(/\ lastCmd'.op = "start"
      /\ called' = called + 1
      /\ \A k \in DOMAIN lastCmd'.ids : lastCmd'.ids[k] = lastCmd'.arg)
     => callHistory' = callHistory]_vars

(***************************************************************************)
(* C19: ending a call that is not over yet puts it into its terminal        *)
(* state, computes its duration from start to end time and sends            *)
(* call_ended to the connections of all its parties; ending an unknown      *)
(* call changes nothing and notifies nobody.                                *)
(***************************************************************************)
C19_EndNotifiesAll ==
  [][(lastCmd'.op = "end" /\ called' = called + 1)
     => LET i == HistIdx(callHistory, lastCmd'.call) IN
          IF i = 0
          THEN callHistory' = callHistory /\ inbox' = inbox
          ELSE (/\ callHistory[i].status = "ongoing"
                /\ lastCmd'.arg \in PartiesOf(callHistory[i]))
               => /\ callHistory'[i].status = "ended"
                  /\ callHistory'[i].duration =
                       Duration(callHistory[i].startTime, clock)
                  /\ \A t \in Sockets :
                       (connected[t] /\ userId[t] \in PartiesOf(callHistory[i]))
                       => inbox'[t] = Append(inbox[t],
                                        CallEv("call_ended", lastCmd'.call, NoUser))]_vars

\* the part of C19 the HTTP route does keep: the record is ended with its
\* duration, and a request for an unknown call changes nothing
C19_HttpEndRecords ==
  [][(lastCmd'.op = "end" /\ called' = called + 1)
     => LET i == HistIdx(callHistory, lastCmd'.call) IN
          IF i = 0
          THEN callHistory' = callHistory /\ inbox' = inbox
          ELSE (/\ callHistory[i].status = "ongoing"
                /\ lastCmd'.arg \in PartiesOf(callHistory[i]))
               => /\ callHistory'[i].status = "ended"
                  /\ callHistory'[i].duration =
                       Duration(callHistory[i].startTime, clock)]_vars

\* the part of C19 the socket handler does keep: end_call takes a known call
\* out of activeCalls and sends call_ended to the connections of caller and
\* target; for an unknown call it does nothing
C19_SocketEndNotifies ==
  [][(lastCmd'.op = "end_call" /\ called' = called + 1)
     => LET i == CallIdx(activeCalls, lastCmd'.call) IN
          IF i = 0
          THEN activeCalls' = activeCalls /\ inbox' = inbox
          ELSE /\ CallIdx(activeCalls', lastCmd'.call) = 0
               /\ \A t \in Sockets :
                    (t \in InRoom(UserRoom(activeCalls[i].caller))
                       \/ t \in InRoom(UserRoom(activeCalls[i].target)))
                    <=> inbox'[t] # inbox[t]]_vars

(***************************************************************************)
(* C20: a call's lifecycle only moves forward and its terminal state is     *)
(* final: once a call is over (ended, or rejected by all invitees), no      *)
(* later join, reject or end request changes its status, end time,          *)
(* duration or participant statuses.                                        *)
(***************************************************************************)
C20_EndedIsTerminal ==
  [][\A i \in DOMAIN callHistory :
       callHistory[i].status # "ongoing" => callHistory'[i] = callHistory[i]]_vars

\* the part of C20 the server does keep: a call that is over never becomes
\* ongoing again, and joining it is refused
C20_NeverOngoingAgain ==
  [][\A i \in DOMAIN callHistory :
       callHistory[i].status # "ongoing"
       => /\ callHistory'[i].status # "ongoing"
          /\ lastCmd'.op = "join" => callHistory'[i] = callHistory[i]]_vars

\* InitChat is a state the server reaches from Init: with three connection
\* attempts allowed, Spec violates this
InitChatNotReached == ~InitChat

InitStatusNotReached == ~InitStatus

\* InitCall likewise
InitCallNotReached == ~InitCall
====
